---------------------------- MODULE Spec2Model ----------------------------
(***************************************************************************)
(* Verification model of the SQL formatting tool.                          *)
(*                                                                         *)
(* Texts are TLA+ strings; Ch(s, i) is the character s[i-1] of the Python  *)
(* source (TLA+ positions start at 1).  Every re.sub of the source is the  *)
(* operator ReSub applied to a per-pattern match operator that decides, as *)
(* the regular expression engine does (alternatives in order, greedy or    *)
(* lazy repetition with backtracking, lookarounds on the scanned text),    *)
(* whether the pattern matches at a position and what replaces the match.  *)
(* A loop of the source over the positions of a text, the tokens or the    *)
(* lines is the operator Emit or Fold applied to the loop's state: the     *)
(* range is split in eight parts that are run one after the other, so the  *)
(* evaluation depth stays logarithmic in the length of the range.          *)
(***************************************************************************)
EXTENDS Integers, Sequences, FiniteSets, TLC

(***************************************************************************)
(* Characters and character classes                                        *)
(***************************************************************************)
Ch(s, i) == IF i >= 1 /\ i <= Len(s) THEN SubSeq(s, i, i) ELSE ""

From(s, i) == IF i > Len(s) THEN "" ELSE SubSeq(s, i, Len(s))

LowerLetters == "abcdefghijklmnopqrstuvwxyz"
UpperLetters == "ABCDEFGHIJKLMNOPQRSTUVWXYZ"
DigitChars == "0123456789"

CharsOf(s) == {SubSeq(s, i, i) : i \in 1..Len(s)}

LowerSet == CharsOf(LowerLetters)
UpperSet == CharsOf(UpperLetters)
DigitSet == CharsOf(DigitChars)

\* \s of the re module, restricted to the characters a TLA+ string can hold
WhiteSpace == {" ", "\t", "\n", "\r", "\f"}

\* [a-zA-Z_]
IdentStart == LowerSet \cup UpperSet \cup {"_"}

\* [A-Za-z0-9_]  (also \w on ASCII text)
WordChars == IdentStart \cup DigitSet

IsSpace(c) == c \in WhiteSpace
IsWord(c) == c \in WordChars

UpperMap == [c \in LowerSet |->
               LET i == CHOOSE k \in 1..26 : SubSeq(LowerLetters, k, k) = c
               IN  SubSeq(UpperLetters, i, i)]
LowerMap == [c \in UpperSet |->
               LET i == CHOOSE k \in 1..26 : SubSeq(UpperLetters, k, k) = c
               IN  SubSeq(LowerLetters, i, i)]

UpperCh(c) == IF c \in LowerSet THEN UpperMap[c] ELSE c
LowerCh(c) == IF c \in UpperSet THEN LowerMap[c] ELSE c

Max(a, b) == IF a >= b THEN a ELSE b
Min(a, b) == IF a <= b THEN a ELSE b

\* Steps(done, result) is result.  Naming the values of the earlier statements
\* of a function body in done has them evaluated first, in the order the
\* body runs them.
Steps(done, result) == IF done = done THEN result ELSE result

\* With(v, F) is F(v), the value v being computed once, before F is applied:
\* the assignment  name = v  of the source, followed by the statements F
With(v, F(_)) == IF v = v THEN F(v) ELSE F(v)

\* The k-th of the eight parts of the range a..b is PartLo(a, b, k)..PartHi(a, b, k)
PartLo(a, b, k) == a + (k - 1) * (((b - a) \div 8) + 1)
PartHi(a, b, k) == Min(b, a + k * (((b - a) \div 8) + 1) - 1)

Range(f) == {f[k] : k \in DOMAIN f}

\* least k in a..b with P(k), 0 when there is none (a >= 1)
First(a, b, P(_)) ==
    IF \E k \in a..b : P(k)
    THEN CHOOSE k \in a..b : P(k) /\ \A r \in a..(k - 1) : ~P(r)
    ELSE 0

\* greatest k in a..b with P(k), 0 when there is none (a >= 1)
Last(a, b, P(_)) ==
    IF \E d \in 0..(b - a) : P(b - d)
    THEN b - (CHOOSE d \in 0..(b - a) : P(b - d) /\ \A r \in 0..(d - 1) : ~P(b - r))
    ELSE 0

\* the k-th smallest element of a finite set of integers
Nth(S, k) == CHOOSE p \in S : Cardinality({q \in S : q <= p}) = k

\* concatenation of the texts parts[a], ..., parts[b]
RECURSIVE Cat(_, _, _)
Cat(parts, a, b) ==
    IF a > b THEN ""
    ELSE IF a = b THEN parts[a]
    ELSE LET c1 == Cat(parts, PartLo(a, b, 1), PartHi(a, b, 1))
             c2 == Cat(parts, PartLo(a, b, 2), PartHi(a, b, 2))
             c3 == Cat(parts, PartLo(a, b, 3), PartHi(a, b, 3))
             c4 == Cat(parts, PartLo(a, b, 4), PartHi(a, b, 4))
             c5 == Cat(parts, PartLo(a, b, 5), PartHi(a, b, 5))
             c6 == Cat(parts, PartLo(a, b, 6), PartHi(a, b, 6))
             c7 == Cat(parts, PartLo(a, b, 7), PartHi(a, b, 7))
             c8 == Cat(parts, PartLo(a, b, 8), PartHi(a, b, 8))
         IN  Steps(<< c1, c2, c3, c4, c5, c6, c7, c8 >>,
                   c1 \o c2 \o c3 \o c4 \o c5 \o c6 \o c7 \o c8)

\* "".join(parts)
JoinAll(parts) == Cat(parts, 1, Len(parts))

\* str.upper() / str.lower()
Upper(s) == JoinAll([i \in 1..Len(s) |-> UpperCh(Ch(s, i))])
Lower(s) == JoinAll([i \in 1..Len(s) |-> LowerCh(Ch(s, i))])

\* s.startswith(p, at position i) : the text p stands at position i of s
StartsAt(s, i, p) ==
    /\ i >= 1
    /\ i + Len(p) - 1 <= Len(s)
    /\ SubSeq(s, i, i + Len(p) - 1) = p

StartsWith(s, p) == StartsAt(s, 1, p)
EndsWith(s, p) == Len(p) <= Len(s) /\ StartsAt(s, Len(s) - Len(p) + 1, p)

\* first position >= i at which p stands, 0 when there is none  (str.find)
Find(s, i, p) == First(Max(i, 1), Len(s) - Len(p) + 1, LAMBDA k : StartsAt(s, k, p))

Contains(s, p) == Find(s, 1, p) # 0

\* first position >= i that holds no white space (Len(s)+1 when none)
SkipSpace(s, i) ==
    With(First(Max(i, 1), Len(s), LAMBDA p : ~IsSpace(Ch(s, p))),
         LAMBDA k : IF k # 0 THEN k ELSE Max(i, Len(s) + 1))

\* last position <= i that holds no white space (0 when none)
SkipSpaceBack(s, i) == Last(1, i, LAMBDA p : ~IsSpace(Ch(s, p)))

\* first position >= i that holds white space (Len(s)+1 when none)
NextSpace(s, i) ==
    With(First(Max(i, 1), Len(s), LAMBDA p : IsSpace(Ch(s, p))),
         LAMBDA k : IF k # 0 THEN k ELSE Max(i, Len(s) + 1))

\* end of the run of characters of the set cs that starts at i (i-1 when
\* Ch(s,i) is not in cs)
RunEnd(s, i, cs) ==
    With(First(Max(i, 1), Len(s), LAMBDA p : Ch(s, p) \notin cs),
         LAMBDA k : IF k # 0 THEN k - 1 ELSE Max(i - 1, Len(s)))

\* first position of the run of characters of cs that ends at e (e+1 when
\* Ch(s,e) is not in cs)
RunStart(s, e, cs) == Last(1, e, LAMBDA p : Ch(s, p) \notin cs) + 1

\* str.strip(), str.lstrip(), str.rstrip()
LStrip(s) == From(s, SkipSpace(s, 1))
RStrip(s) == SubSeq(s, 1, SkipSpaceBack(s, Len(s)))
Strip(s) == RStrip(LStrip(s))

\* str.count(c) for a one-character c
Count(s, c) == Cardinality({k \in 1..Len(s) : Ch(s, k) = c})

\* str.splitlines(), for texts whose only line boundary is "\n"
SplitLines(s) ==
    With({k \in 1..Len(s) : Ch(s, k) = "\n"}, LAMBDA nl :
        [k \in 1..(Cardinality(nl) + (IF s # "" /\ Ch(s, Len(s)) # "\n" THEN 1 ELSE 0)) |->
            SubSeq(s,
                   IF k = 1 THEN 1 ELSE Nth(nl, k - 1) + 1,
                   IF k <= Cardinality(nl) THEN Nth(nl, k) - 1 ELSE Len(s))])

\* "\n".join(lines)
JoinLines(lines) ==
    JoinAll([k \in 1..Len(lines) |->
                IF k < Len(lines) THEN lines[k] \o "\n" ELSE lines[k]])

RECURSIVE Repeat(_, _)
Repeat(s, n) == IF n <= 0 THEN "" ELSE s \o Repeat(s, n - 1)

\* decimal digits of n >= 0
RECURSIVE Digits(_)
Digits(n) ==
    IF n < 10 THEN SubSeq(DigitChars, n + 1, n + 1)
    ELSE Digits(n \div 10) \o SubSeq(DigitChars, (n % 10) + 1, (n % 10) + 1)

\* int(d) for the first k characters of a digit string d
RECURSIVE IntOf(_, _)
IntOf(d, k) ==
    IF k = 0 THEN 0
    ELSE 10 * IntOf(d, k - 1)
         + (CHOOSE n \in 0..9 : SubSeq(DigitChars, n + 1, n + 1) = Ch(d, k))

(***************************************************************************)
(* Configuration of scripts/sql_format_pass_1.py                           *)
(***************************************************************************)
PASS1_VERSION == 1

PASS1_COMMENT == "-- sqlfluff-pass1-version: " \o Digits(PASS1_VERSION)

INDENT == "    "

SNOWFLAKE_FUNCTIONS == {
    "ARRAY_AGG","AVG","CAST","COALESCE","COUNT","DATEADD","DATEDIFF","FIRST_VALUE","LAST_VALUE","LISTAGG","MAX","MIN","ROW_NUMBER",
    "SUM","TO_DATE","TO_TIMESTAMP","NVL","IFF","CASE","DECODE","LEAD","LAG","RANK","DENSE_RANK","NTILE","ABS","CEIL","CEILING","FLOOR",
    "ROUND","TRUNC","EXP","LN","LOG","LOG10","MOD","POWER","SQRT","SIGN","SIN","COS","TAN","ASIN","ACOS","ATAN","ATAN2","COSH","SINH",
    "TANH","GREATEST","LEAST","NULLIF","REGEXP_REPLACE","REGEXP_SUBSTR","SPLIT_PART","SUBSTR","SUBSTRING","TRIM","LTRIM","RTRIM","UPPER",
    "LOWER","INITCAP","REPLACE","REVERSE","CONCAT","CONCAT_WS","LPAD","RPAD","LEFT","RIGHT","POSITION","CHARINDEX","ASCII","CHR","TO_CHAR",
    "TO_NUMBER","TO_VARCHAR","TO_DECIMAL","TO_DOUBLE","TO_BOOLEAN","TO_VARIANT","TO_OBJECT","TO_ARRAY","TRY_CAST","TRY_TO_DATE","TRY_TO_TIMESTAMP" }

MAJOR_CLAUSES ==
    << "SELECT", "FROM", "WHERE", "GROUP BY", "ORDER BY", "HAVING",
       "JOIN", "INNER JOIN", "LEFT JOIN", "RIGHT JOIN",
       "FULL JOIN", "UNION", "EXCEPT", "INTERSECT", "LIMIT", "UPDATE" >>

KEYWORDS ==
    << "LEFT JOIN", "RIGHT JOIN", "INNER JOIN", "OUTER JOIN", "FULL JOIN",
       "SELECT", "FROM", "WHERE", "GROUP BY", "ORDER BY", "HAVING",
       "JOIN", "UNION", "LIMIT", "ON", "AND", "OR",
       "WITH", "WHEN", "THEN", "ELSE", "END", "OVER", "VALUES" >>

(***************************************************************************)
(* Patterns.  A match operator gives, for a position i of the text, the    *)
(* record [end, rep]: the last position of the match that starts at i and  *)
(* the text that replaces it; end = 0 when the pattern does not match at i *)
(***************************************************************************)
NoMatch == [end |-> 0, rep |-> ""]

PLACEHOLDER_PATTERNS ==
    << [kind |-> "line_comment",  label |-> "SQL_COMMENT"],
       [kind |-> "block_comment", label |-> "SQL_BLOCK_COMMENT"],
       [kind |-> "jinja_expr",    label |-> "JINJA"],
       [kind |-> "jinja_stmt",    label |-> "JINJA"],
       [kind |-> "jinja_comment", label |-> "JINJA_COMMENT"],
       [kind |-> "single_quoted", label |-> "SINGLE_QUOTED_STRING"],
       [kind |-> "double_quoted", label |-> "DOUBLE_QUOTED_STRING"] >>

\* (?:''|[^'])*'  from position j, for the quote character qc: the position of
\* the closing quote, 0 when the text does not match.  The repetition is
\* greedy: a doubled quote is taken as content first, and given back (the
\* first of the two then closes the literal) only when what follows fails.
RECURSIVE QuoteEnd(_, _, _)
QuoteEnd(s, j, qc) ==
    With(Find(s, j, qc), LAMBDA q :
        IF q = 0 THEN 0
        ELSE IF Ch(s, q + 1) = qc
             THEN With(QuoteEnd(s, q + 2, qc), LAMBDA r : IF r # 0 THEN r ELSE q)
        ELSE q)

\* end (last position) of the match of one pattern at position i, 0 if none
MatchEnd(kind, s, i) ==
    CASE kind = "line_comment" ->
           \* --[^\n]*
           IF StartsAt(s, i, "--")
           THEN With(Find(s, i + 2, "\n"), LAMBDA n : IF n = 0 THEN Len(s) ELSE n - 1)
           ELSE 0
      [] kind = "block_comment" ->
           \* /\*.*?\*/
           IF StartsAt(s, i, "/*")
           THEN With(Find(s, i + 2, "*/"), LAMBDA k : IF k = 0 THEN 0 ELSE k + 1)
           ELSE 0
      [] kind = "jinja_expr" ->
           \* {{.*?}}
           IF StartsAt(s, i, "{{")
           THEN With(Find(s, i + 2, "}}"), LAMBDA k : IF k = 0 THEN 0 ELSE k + 1)
           ELSE 0
      [] kind = "jinja_stmt" ->
           \* {%-?.*?-%}   (the optional dash is taken when it can be)
           IF StartsAt(s, i, "{%")
           THEN With(IF Ch(s, i + 2) = "-" THEN Find(s, i + 3, "-%}") ELSE 0,
                     LAMBDA k1 :
                         IF k1 # 0 THEN k1 + 2
                         ELSE With(Find(s, i + 2, "-%}"),
                                   LAMBDA k0 : IF k0 # 0 THEN k0 + 2 ELSE 0))
           ELSE 0
      [] kind = "jinja_comment" ->
           \* {#.*?#}
           IF StartsAt(s, i, "{#")
           THEN With(Find(s, i + 2, "#}"), LAMBDA k : IF k = 0 THEN 0 ELSE k + 1)
           ELSE 0
      [] kind = "single_quoted" ->
           IF Ch(s, i) = "'" THEN QuoteEnd(s, i + 1, "'") ELSE 0
      [] kind = "double_quoted" ->
           IF Ch(s, i) = "\"" THEN QuoteEnd(s, i + 1, "\"") ELSE 0

\* index of the first alternative of the combined pattern that matches at i
FirstPattern(s, i) ==
    First(1, Len(PLACEHOLDER_PATTERNS),
          LAMBDA p : MatchEnd(PLACEHOLDER_PATTERNS[p].kind, s, i) # 0)

\* f"{n:04d}"
Pad4(n) ==
    With(Digits(n),
         LAMBDA d : IF Len(d) >= 4 THEN d ELSE SubSeq("0000", 1, 4 - Len(d)) \o d)

PlaceholderKey(label, counter) ==
    "__PLACEHOLDER_" \o label \o "_" \o Pad4(counter) \o "__"

\* replace_match(match) for the match at i, the n+1-th of the scan
replace_match(s, i, n) ==
    With(FirstPattern(s, i), LAMBDA p :
        IF p = 0 THEN NoMatch
        ELSE [end |-> MatchEnd(PLACEHOLDER_PATTERNS[p].kind, s, i),
              rep |-> PlaceholderKey(PLACEHOLDER_PATTERNS[p].label, n + 1)])

\* str.replace(old, new): an occurrence of old at i
literal_match(s, i, old, new) ==
    IF old # "" /\ StartsAt(s, i, old)
    THEN [end |-> i + Len(old) - 1, rep |-> new]
    ELSE NoMatch

\* r"\\s+" -> " " : the pattern is a backslash followed by one or more
\* letters s
backslash_s_match(s, i) ==
    IF Ch(s, i) = "\\" /\ Ch(s, i + 1) = "s"
    THEN [end |-> RunEnd(s, i + 1, {"s"}), rep |-> " "]
    ELSE NoMatch

\* r" {2,}" -> " "
spaces_match(s, i) ==
    IF StartsAt(s, i, "  ")
    THEN [end |-> RunEnd(s, i, {" "}), rep |-> " "]
    ELSE NoMatch

\* r'\s+' -> ' '
whitespace_match(s, i) ==
    IF IsSpace(Ch(s, i))
    THEN [end |-> SkipSpace(s, i) - 1, rep |-> " "]
    ELSE NoMatch

\* r'\n{3,}' -> '\n\n'
newlines_match(s, i) ==
    IF StartsAt(s, i, "\n\n\n")
    THEN [end |-> RunEnd(s, i, {"\n"}), rep |-> "\n\n"]
    ELSE NoMatch

\* Substitutions of the shape  re.sub(r'<pre>\s*(X)\s*<post>', rep, sql).
\* OpLen is the length of X when X stands at position j (its own lookarounds
\* included), PreOK the lookbehind at the start of the match.
OpLen(mode, s, j) ==
    LET c == Ch(s, j)
        prev == Ch(s, j - 1)
        next == Ch(s, j + 1)
    IN  CASE mode \in {"<>", "!=", "<=", ">=", "||"} ->
               IF StartsAt(s, j, mode) THEN 2 ELSE 0
          [] mode = "single" ->
               \* (?<![<>!])=(?![=])|(?<!<)<(?!>)|(?<!>)>(?!<)|[+/%]
               IF \/ c = "=" /\ prev \notin {"<", ">", "!"} /\ next # "="
                  \/ c = "<" /\ prev # "<" /\ next # ">"
                  \/ c = ">" /\ prev # ">" /\ next # "<"
                  \/ c \in {"+", "/", "%"}
               THEN 1 ELSE 0
          [] mode = "star" -> IF c = "*" THEN 1 ELSE 0
          [] mode = "minus" ->
               \* -\s*(?=\w)
               IF c = "-" /\ IsWord(Ch(s, SkipSpace(s, j + 1))) THEN 1 ELSE 0
          [] mode = "semicolon" -> IF c = ";" THEN 1 ELSE 0

PreOK(mode, s, i) ==
    CASE mode = "star" -> Ch(s, i - 1) # "."           \* (?<!\.)
      [] mode = "minus" -> IsWord(Ch(s, i - 1))         \* (?<=\w)
      [] OTHER -> TRUE

OpRep(mode, s, j, len) ==
    CASE mode = "semicolon" -> "\n\n;\n\n"
      [] OTHER -> " " \o SubSeq(s, j, j + len - 1) \o " "

operator_match(mode, s, i) ==
    With(SkipSpace(s, i), LAMBDA j :
        With(IF j <= Len(s) /\ PreOK(mode, s, i) THEN OpLen(mode, s, j) ELSE 0,
             LAMBDA len :
                 IF len > 0
                 THEN [end |-> SkipSpace(s, j + len) - 1, rep |-> OpRep(mode, s, j, len)]
                 ELSE NoMatch))

\* r'\(\s*\*\s*\)' -> r'(*)'
paren_star_match(s, i) ==
    With(SkipSpace(s, i + 1), LAMBDA j :
        With(SkipSpace(s, j + 1), LAMBDA k :
            IF Ch(s, i) = "(" /\ Ch(s, j) = "*" /\ Ch(s, k) = ")"
            THEN [end |-> k, rep |-> "(*)"]
            ELSE NoMatch))

\* index in KEYWORDS of the first alternative that matches at position i
\* (case-insensitively, between (?<![A-Za-z0-9_]) and (?![A-Za-z0-9_])),
\* 0 when none does
KeywordAt(s, i) ==
    IF IsWord(Ch(s, i - 1)) THEN 0
    ELSE First(1, Len(KEYWORDS),
               LAMBDA k : /\ i + Len(KEYWORDS[k]) - 1 <= Len(s)
                          /\ Upper(SubSeq(s, i, i + Len(KEYWORDS[k]) - 1)) = KEYWORDS[k]
                          /\ ~IsWord(Ch(s, i + Len(KEYWORDS[k]))))

\* insert_newline(match) for the keyword KEYWORDS[k] matched at position i
\* insert_newline putting one line break before every keyword
insert_newline_single(sql, i, k) ==
    LET kw == KEYWORDS[k]
    IN  IF i > 1 /\ Ch(sql, i - 1) = "\n" THEN kw ELSE "\n" \o kw

insert_newline(sql, i, k) ==
    LET kw == KEYWORDS[k]
    IN  IF i > 1 /\ Ch(sql, i - 1) = "\n" THEN kw
        ELSE IF kw \in Range(MAJOR_CLAUSES) THEN "\n\n" \o kw
        ELSE "\n" \o kw

keyword_match(sql, i) ==
    With(KeywordAt(sql, i), LAMBDA k :
        IF k = 0 THEN NoMatch
        ELSE [end |-> i + Len(KEYWORDS[k]) - 1, rep |-> insert_newline(sql, i, k)])

\* in_block looking at the first block only
in_block_first(idx, blocks) ==
    blocks # << >> /\ blocks[1][1] <= idx /\ idx <= blocks[1][2]

in_block(idx, blocks) ==
    \E k \in DOMAIN blocks : blocks[k][1] <= idx /\ idx <= blocks[k][2]

\* replacement(match) for the comma at position j
comma_replacement(j, function_blocks) ==
    IF in_block(j, function_blocks) THEN ", " ELSE "\n, "

\* [\s]*,[\s]*
comma_match(sql, i, function_blocks) ==
    With(SkipSpace(sql, i), LAMBDA j :
        IF Ch(sql, j) = ","
        THEN [end |-> SkipSpace(sql, j + 1) - 1,
              rep |-> comma_replacement(j, function_blocks)]
        ELSE NoMatch)

\* r'(?<!\n)--' -> '\n--'
comment_match(s, i) ==
    IF StartsAt(s, i, "--") /\ Ch(s, i - 1) # "\n"
    THEN [end |-> i + 1, rep |-> "\n--"]
    ELSE NoMatch

\* r"\s+|[A-Za-z0-9_]+|\(|\)|."  (every character starts or continues a token)
token_match(s, i) ==
    With(IF IsSpace(Ch(s, i)) THEN RunEnd(s, i, WhiteSpace)
         ELSE IF IsWord(Ch(s, i)) THEN RunEnd(s, i, WordChars)
         ELSE i,
         LAMBDA e : [end |-> e, rep |-> SubSeq(s, i, e)])

(***************************************************************************)
(* Lexical classification of parentheses                                   *)
(***************************************************************************)
\* is_function_call(sql, idx) for the parenthesis at position p = idx + 1:
\* re.search(r"([a-zA-Z_][a-zA-Z0-9_]*(?:\.[a-zA-Z_][a-zA-Z0-9_]*)*)\s*$",
\*           sql[:idx]); group(1).split(".")[-1] is the part of the last run
\* of word characters that starts at its first letter or underscore
\* is_function_call without the upper-casing of the name
is_function_call_as_written(sql, p) ==
    With(SkipSpaceBack(sql, p - 1), LAMBDA e :
        With(First(Max(RunStart(sql, e, WordChars), 1), e,
                   LAMBDA k : Ch(sql, k) \in IdentStart),
             LAMBDA b : /\ b # 0
                        /\ SubSeq(sql, b, e) \in SNOWFLAKE_FUNCTIONS))

is_function_call(sql, p) ==
    With(SkipSpaceBack(sql, p - 1), LAMBDA e :
        With(First(Max(RunStart(sql, e, WordChars), 1), e,
                   LAMBDA k : Ch(sql, k) \in IdentStart),
             LAMBDA b : /\ b # 0
                        /\ Upper(SubSeq(sql, b, e)) \in SNOWFLAKE_FUNCTIONS))

\* one iteration of the loop of find_sql_blocks, for the character at k;
\* st.stack holds <<start, is_function>> entries, items is what the iteration
\* appends to function_blocks
BlockStep(sql, k, st) ==
    LET stack == st.stack
    IN  IF Ch(sql, k) = "("
        THEN [out |-> "", items |-> << >>,
              st |-> [i |-> k + 1,
                      stack |-> Append(stack, << k, is_function_call(sql, k) >>)]]
        ELSE IF Ch(sql, k) = ")" /\ stack # << >>
             THEN [out |-> "",
                   items |-> IF stack[Len(stack)][2]
                             THEN << << stack[Len(stack)][1], k >> >>
                             ELSE << >>,
                   st |-> [i |-> k + 1, stack |-> SubSeq(stack, 1, Len(stack) - 1)]]
        ELSE [out |-> "", items |-> << >>, st |-> [st EXCEPT !.i = k + 1]]

\* str.isspace()
IsSpaceToken(t) == Len(t) > 0 /\ \A k \in 1..Len(t) : IsSpace(Ch(t, k))

\* index of the last token at or before j that is not white space, 0 if none
PrevNonSpace(tokens, j) == Last(1, j, LAMBDA k : ~IsSpaceToken(tokens[k]))

is_cte_context(tokens, index) ==
    With(PrevNonSpace(tokens, index - 1), LAMBDA j :
        /\ j >= 2
        /\ Upper(tokens[j]) = "AS"
        /\ \E k \in 1..(j - 1) : Upper(tokens[k]) = "WITH")

\* the context pushed for the "(" at tokens[i]
open_context(tokens, i) ==
    With(PrevNonSpace(tokens, i - 1), LAMBDA j :
        IF j >= 1 /\ Upper(tokens[j]) \in SNOWFLAKE_FUNCTIONS THEN "function"
        ELSE IF is_cte_context(tokens, i) THEN "cte"
        ELSE "group")

\* one iteration of the loop of format_parentheses, for the token at k;
\* st.stack is paren_stack, out is what the iteration appends to output
ParenTokenStep(tokens, k, st) ==
    LET paren_stack == st.stack
        context == IF paren_stack # << >>
                   THEN paren_stack[Len(paren_stack)] ELSE "group"
    IN  IF tokens[k] = "("
        THEN With(open_context(tokens, k), LAMBDA opened :
                 [out |-> CASE opened = "function" -> "("
                            [] opened = "cte" -> "(\n\n"
                            [] OTHER -> "(\n",
                  items |-> << >>,
                  st |-> [i |-> k + 1, stack |-> Append(paren_stack, opened)]])
        ELSE IF tokens[k] = ")"
             THEN [out |-> CASE context = "function" -> ")"
                             [] context = "cte" -> "\n\n)\n\n"
                             [] OTHER -> "\n)",
                   items |-> << >>,
                   st |-> [i |-> k + 1,
                           stack |-> IF paren_stack # << >>
                                     THEN SubSeq(paren_stack, 1, Len(paren_stack) - 1)
                                     ELSE << >>]]
        ELSE [out |-> tokens[k], items |-> << >>, st |-> [st EXCEPT !.i = k + 1]]

(***************************************************************************)
(* Scanning: re.sub, re.findall, str.replace and the loops that emit text  *)
(***************************************************************************)
(***************************************************************************)
(* Patterns and loop bodies of sql_format_pass_1.py (the tool)             *)
(***************************************************************************)
NEWLINE_KEYWORDS ==
    { "SELECT", "FROM", "WHERE", "GROUP BY", "HAVING", "ORDER BY", "QUALIFY", "LIMIT",
      "UNION", "UNION ALL", "EXCEPT", "MINUS", "INTERSECT",
      "JOIN", "INNER JOIN", "LEFT JOIN", "LEFT OUTER JOIN", "RIGHT JOIN",
      "RIGHT OUTER JOIN", "FULL JOIN", "FULL OUTER JOIN", "CROSS JOIN", "ON", "USING",
      "WHEN", "THEN", "ELSE", "END", "AND", "OR",
      "INSERT", "UPDATE", "DELETE", "MERGE", "VALUES",
      "OVER", "PARTITION BY" }

\* sqlparse.parse(sql), as far as insert_newlines_before_keywords depends on
\* it and for texts without comments, quotes, BEGIN, DECLARE and CREATE: the
\* flattened tokens are the white space characters, the words (the word
\* groups below are one token each) and the other characters one by one; a
\* new statement starts at the first token that is not white space behind a
\* ";" outside parentheses.
sqlparse_groups ==
    << "LEFT OUTER JOIN", "RIGHT OUTER JOIN", "FULL OUTER JOIN", "LEFT JOIN",
       "RIGHT JOIN", "FULL JOIN", "INNER JOIN", "CROSS JOIN", "GROUP BY", "ORDER BY",
       "UNION ALL" >>

sqlparse_match(s, i) ==
    IF ~IsWord(Ch(s, i)) THEN [end |-> i, rep |-> Ch(s, i)]
    ELSE With(First(1, Len(sqlparse_groups), LAMBDA g :
                  /\ StartsAt(Upper(SubSeq(s, i, Min(Len(s), i + 15))), 1, sqlparse_groups[g])
                  /\ ~IsWord(Ch(s, i + Len(sqlparse_groups[g])))),
              LAMBDA g :
        IF g # 0 THEN [end |-> i + Len(sqlparse_groups[g]) - 1, rep |-> ""]
        ELSE [end |-> RunEnd(s, i, WordChars), rep |-> ""])

\* one iteration of the while loop of insert_newlines_before_keywords, for the
\* token at k; st.result is the list result of the statement at hand
KeywordTokenStep(env, k, st) ==
    With(IF k \in env.starts THEN << >> ELSE st.result, LAMBDA result :
      With(Upper(env.s[k]), LAMBDA text_upper :
        With(IF k < Len(env.s) /\ (k + 1) \notin env.starts
             THEN (text_upper \o " " \o Upper(env.s[k + 1])) \in NEWLINE_KEYWORDS
             ELSE FALSE, LAMBDA combined :
          IF combined \/ text_upper \in NEWLINE_KEYWORDS
          THEN With(Last(1, Len(result), LAMBDA j : Strip(result[j]) # ""), LAMBDA j :
                 With((IF j >= 1 /\ EndsWith(result[j], "\n") THEN << >> ELSE << "\n" >>)
                          \o (IF combined THEN << env.s[k] \o " " \o env.s[k + 1] >>
                              ELSE << env.s[k] >>),
                      LAMBDA new :
                     [out |-> (IF k \in env.starts /\ k > 1 THEN "\n" ELSE "") \o JoinAll(new),
                      items |-> << >>,
                      st |-> [i |-> IF combined THEN k + 2 ELSE k + 1,
                              result |-> result \o new]]))
          ELSE [out |-> (IF k \in env.starts /\ k > 1 THEN "\n" ELSE "") \o env.s[k],
                items |-> << >>,
                st |-> [i |-> k + 1, result |-> Append(result, env.s[k])]])))

\* the forward pass of insert_newlines_for_parens_and_commas over a line: a
\* line break before a ")" that nothing opens
ForwardStep(env, k, st) ==
    With(Ch(env.s, k), LAMBDA ch :
        IF ch = "("
        THEN [out |-> ch, items |-> << >>, st |-> [i |-> k + 1, depth |-> st.depth + 1]]
        ELSE IF ch = ")"
        THEN IF st.depth - 1 < 0
             THEN [out |-> "\n" \o ch, items |-> << >>, st |-> [i |-> k + 1, depth |-> 0]]
             ELSE [out |-> ch, items |-> << >>,
                   st |-> [i |-> k + 1, depth |-> st.depth - 1]]
        ELSE [out |-> ch, items |-> << >>, st |-> [st EXCEPT !.i = k + 1]])

\* its backward pass: the k-th step handles the k-th character from the end
\* and appends one entry to backward_chars
BackwardStep(env, k, st) ==
    With(Ch(env.s, Len(env.s) + 1 - k), LAMBDA ch :
        IF ch = ")"
        THEN [out |-> "", items |-> << ch >>, st |-> [i |-> k + 1, depth |-> st.depth + 1]]
        ELSE IF ch = "("
        THEN IF st.depth - 1 < 0
             THEN [out |-> "", items |-> << ch \o "\n" >>,
                   st |-> [i |-> k + 1, depth |-> 0]]
             ELSE [out |-> "", items |-> << ch >>,
                   st |-> [i |-> k + 1, depth |-> st.depth - 1]]
        ELSE [out |-> "", items |-> << ch >>, st |-> [st EXCEPT !.i = k + 1]])

\* its comma pass; out is what the step adds to "\n".join(segments)
CommaStep(env, k, st) ==
    With(Ch(env.s, k), LAMBDA ch :
        IF ch = "("
        THEN [out |-> ch, items |-> << >>,
              st |-> [i |-> k + 1, paren_depth |-> st.paren_depth + 1,
                      buffer |-> st.buffer \o ch]]
        ELSE IF ch = ")"
        THEN [out |-> ch, items |-> << >>,
              st |-> [i |-> k + 1, paren_depth |-> Max(st.paren_depth - 1, 0),
                      buffer |-> st.buffer \o ch]]
        ELSE IF /\ ch = ","
                /\ (st.paren_depth = 0 \/ env.has_complex_parens)
                /\ Strip(st.buffer) # ""
        THEN [out |-> "\n" \o ch, items |-> << >>,
              st |-> [st EXCEPT !.i = k + 1, !.buffer = ch]]
        ELSE [out |-> ch, items |-> << >>,
              st |-> [st EXCEPT !.i = k + 1, !.buffer = st.buffer \o ch]])

\* re.match(r".+\bAS\s*\($", s, re.IGNORECASE) for a stripped line s
cte_match(s) ==
    With(SkipSpaceBack(s, Len(s) - 1), LAMBDA j :
        /\ EndsWith(s, "(")
        /\ j >= 3
        /\ Upper(SubSeq(s, j - 1, j)) = "AS"
        /\ ~IsWord(Ch(s, j - 2)))

\* the body of the loop of add_newline_after_cte_closing; cte_depth_trigger
\* is << >> for None and << depth >> otherwise
CteStep(env, k, st) ==
    With(env.lines[k], LAMBDA line :
      With(Upper(Strip(line)), LAMBDA stripped :
        With(st.paren_depth + Count(line, "(") - Count(line, ")"), LAMBDA paren_depth :
          With(IF cte_match(Strip(line)) THEN << st.paren_depth + 1 >>
               ELSE st.cte_depth_trigger, LAMBDA trigger :
            With(/\ (st.inside_with \/ StartsWith(stripped, "WITH "))
                 /\ trigger # << >>
                 /\ paren_depth = trigger[1] - 1, LAMBDA closing :
                [i |-> k + 1, done |-> FALSE,
                 inside_with |->
                     /\ (st.inside_with \/ StartsWith(stripped, "WITH "))
                     /\ ~(/\ StartsWith(stripped, "SELECT")
                          /\ (closing \/ trigger = << >>)
                          /\ paren_depth = 0),
                 paren_depth |-> paren_depth,
                 cte_depth_trigger |-> IF closing THEN << >> ELSE trigger,
                 output |-> st.output \o << line >>
                                \o (IF closing THEN << "" >> ELSE << >>)])))))

\* re.sub(r"--(.*)$", lambda m: f"/*{m.group(1).strip()}*/", sql, flags=re.M)
dash_comment_match(s, i) ==
    IF ~StartsAt(s, i, "--") THEN NoMatch
    ELSE With(Find(s, i, "\n"), LAMBDA e :
             With(IF e = 0 THEN Len(s) ELSE e - 1, LAMBDA end :
                 [end |-> end, rep |-> "/*" \o Strip(SubSeq(s, i + 2, end)) \o "*/"]))

\* re.sub(r'\s*;\s*', r'\n\n;\n\n', sql)
semicolon_match(s, i) ==
    With(SkipSpace(s, i), LAMBDA j :
        IF Ch(s, j) = ";"
        THEN [end |-> SkipSpace(s, j + 1) - 1, rep |-> "\n\n;\n\n"]
        ELSE NoMatch)

\* the match of the pattern named mode at position i of env.s; n is the
\* number of matches the scan has made before i, env.ctx the data the
\* replacement uses
MatchAt(mode, env, i, n) ==
    CASE mode = "placeholder" -> replace_match(env.s, i, n)
      [] mode = "literal" -> literal_match(env.s, i, env.ctx[1], env.ctx[2])
      [] mode = "backslash_s" -> backslash_s_match(env.s, i)
      [] mode = "spaces" -> spaces_match(env.s, i)
      [] mode = "newlines" -> newlines_match(env.s, i)
      [] mode = "paren_star" -> paren_star_match(env.s, i)
      [] mode = "keyword" -> keyword_match(env.s, i)
      [] mode = "comma" -> comma_match(env.s, i, env.ctx)
      [] mode = "comment" -> comment_match(env.s, i)
      [] mode = "token" -> token_match(env.s, i)
      [] mode = "whitespace" -> whitespace_match(env.s, i)
      [] mode = "sqlparse" -> sqlparse_match(env.s, i)
      [] mode = "semicolon_lines" -> semicolon_match(env.s, i)
      [] mode = "dash_comment" -> dash_comment_match(env.s, i)
      [] OTHER -> operator_match(mode, env.s, i)

\* one step of a regular expression scan at position k = st.i: a match emits
\* its replacement, records its span <<start, end>> and moves the cursor
\* behind the match; no match emits the character and moves on by one
ScanStep(mode, env, k, st) ==
    With(MatchAt(mode, env, k, st.n), LAMBDA m :
        IF m.end = 0
        THEN [out |-> Ch(env.s, k), items |-> << >>, st |-> [st EXCEPT !.i = k + 1]]
        ELSE [out |-> m.rep, items |-> << << k, m.end >> >>,
              st |-> [i |-> m.end + 1, n |-> st.n + 1]])

EmitAt(kind, env, k, st) ==
    CASE kind = "blocks" -> BlockStep(env.s, k, st)
      [] kind = "parens" -> ParenTokenStep(env.s, k, st)
      [] kind = "keyword_tokens" -> KeywordTokenStep(env, k, st)
      [] kind = "forward" -> ForwardStep(env, k, st)
      [] kind = "backward" -> BackwardStep(env, k, st)
      [] kind = "commas" -> CommaStep(env, k, st)
      [] OTHER -> ScanStep(kind, env, k, st)

\* The loop of the given kind over the positions a..b, entered in state st
\* (st.i is the next position the loop handles).  The result holds the text
\* the loop emits, the items it records and the state it leaves.
RECURSIVE Emit(_, _, _, _, _)
Emit(kind, env, a, b, st) ==
    IF a > b \/ st.i > b THEN [out |-> "", items |-> << >>, st |-> st]
    ELSE IF a = b THEN EmitAt(kind, env, a, st)
    ELSE LET r1 == Emit(kind, env, PartLo(a, b, 1), PartHi(a, b, 1), st)
             r2 == Emit(kind, env, PartLo(a, b, 2), PartHi(a, b, 2), r1.st)
             r3 == Emit(kind, env, PartLo(a, b, 3), PartHi(a, b, 3), r2.st)
             r4 == Emit(kind, env, PartLo(a, b, 4), PartHi(a, b, 4), r3.st)
             r5 == Emit(kind, env, PartLo(a, b, 5), PartHi(a, b, 5), r4.st)
             r6 == Emit(kind, env, PartLo(a, b, 6), PartHi(a, b, 6), r5.st)
             r7 == Emit(kind, env, PartLo(a, b, 7), PartHi(a, b, 7), r6.st)
             r8 == Emit(kind, env, PartLo(a, b, 8), PartHi(a, b, 8), r7.st)
         IN  Steps(<< r1, r2, r3, r4, r5, r6, r7, r8 >>,
                   [out |-> r1.out \o r2.out \o r3.out \o r4.out
                            \o r5.out \o r6.out \o r7.out \o r8.out,
                    items |-> r1.items \o r2.items \o r3.items \o r4.items
                              \o r5.items \o r6.items \o r7.items \o r8.items,
                    st |-> r8.st])

Scan(mode, s, ctx) ==
    Emit(mode, [s |-> s, ctx |-> ctx], 1, Len(s), [i |-> 1, n |-> 0])

\* re.sub(pattern, repl, s)
ReSub(mode, s, ctx) == IF s = "" THEN "" ELSE Scan(mode, s, ctx).out

\* str.replace(old, new): every non-overlapping occurrence, left to right
Replace(s, old, new) == ReSub("literal", s, << old, new >>)

\* re.sub(r'\n{3,}', '\n\n', s)
CollapseNewlines(s) == ReSub("newlines", s, << >>)

(***************************************************************************)
(* Placeholder extraction and restoration                                  *)
(***************************************************************************)
\* returns the pair (sql_with_placeholders, replacements); the dict keeps
\* insertion order, so it is a sequence of (key, original) entries
extract_placeholders(sql) ==
    With(Scan("placeholder", sql, << >>), LAMBDA r :
        [text |-> r.out,
         reps |-> [k \in 1..Len(r.items) |->
                      [key |-> replace_match(sql, r.items[k][1], k - 1).rep,
                       original |-> SubSeq(sql, r.items[k][1], r.items[k][2])]]])

\* the loop of restore_placeholders over the entries a..b of replacements
RECURSIVE RestoreRange(_, _, _, _)
RestoreRange(sql, reps, a, b) ==
    IF a > b THEN sql
    ELSE IF a = b THEN Replace(sql, reps[a].key, reps[a].original)
    ELSE LET mid == (a + b) \div 2
             l == RestoreRange(sql, reps, a, mid)
         IN  Steps(l, RestoreRange(l, reps, mid + 1, b))

restore_placeholders(sql, reps) == RestoreRange(sql, reps, 1, Len(reps))

(***************************************************************************)
(* Whitespace flattening                                                   *)
(***************************************************************************)
flatten_sql_whitespace(sql, remove_all_spaces) ==
    With(ReSub("backslash_s", sql, << >>), LAMBDA a :
        With(Strip(Replace(a, "\n", " ")), LAMBDA b :
            With(ReSub("spaces", b, << >>), LAMBDA c :
                IF remove_all_spaces THEN Replace(c, " ", "") ELSE c)))

\* function_blocks, a sequence of <<start, end>> positions
find_sql_blocks(sql) ==
    Emit("blocks", [s |-> sql], 1, Len(sql), [i |-> 1, stack |-> << >>]).items

(***************************************************************************)
(* normalize_operators                                                     *)
(***************************************************************************)
multi_ops == << "<>", "!=", "<=", ">=", "||" >>

\* the substitutions of normalize_operators in the order it makes them: the
\* loop over multi_ops, then single_ops, the two for "*", "-" and ";"
operator_passes == multi_ops \o << "single", "star", "paren_star", "minus", "semicolon" >>

\* the substitutions modes[a], ..., modes[b] made one after the other
RECURSIVE SubEach(_, _, _, _)
SubEach(modes, a, b, sql) ==
    IF a > b THEN sql
    ELSE IF a = b THEN ReSub(modes[a], sql, << >>)
    ELSE With(SubEach(modes, a, (a + b) \div 2, sql),
              LAMBDA t : SubEach(modes, ((a + b) \div 2) + 1, b, t))

normalize_operators(sql) ==
    CollapseNewlines(SubEach(operator_passes, 1, Len(operator_passes), sql))

(***************************************************************************)
(* Keyword and comma newlines                                              *)
(***************************************************************************)
format_sql_keywords(sql) == ReSub("keyword", sql, << >>)

format_sql_commas(sql) ==
    With(find_sql_blocks(sql), LAMBDA function_blocks : ReSub("comma", sql, function_blocks))

(***************************************************************************)
(* format_parentheses                                                      *)
(***************************************************************************)
\* re.findall(r"\s+|[A-Za-z0-9_]+|\(|\)|.", sql_text)
tokenize(sql_text) ==
    With(Scan("token", sql_text, << >>).items, LAMBDA spans :
        [k \in 1..Len(spans) |-> SubSeq(sql_text, spans[k][1], spans[k][2])])

format_parentheses(sql) ==
    With(tokenize(sql), LAMBDA tokens :
        With(Emit("parens", [s |-> tokens], 1, Len(tokens),
                  [i |-> 1, stack |-> << >>]).out,
             LAMBDA formatted : CollapseNewlines(formatted)))

(***************************************************************************)
(* Comment newlines, final newlines, version comment                       *)
(***************************************************************************)
ensure_comment_newlines(sql) == ReSub("comment", sql, << >>)

finalize_newlines(sql) == CollapseNewlines(sql)

\* match of  ^\s*--\s*sqlfluff-pass1-version:\s*(\d+)  (flags i, m) at line
\* start p: [from |-> start of the digits, to |-> their end], to = 0 if none
VersionTag == "sqlfluff-pass1-version:"

VersionMatchAt(s, p) ==
    IF ~(p = 1 \/ Ch(s, p - 1) = "\n") THEN [from |-> 0, to |-> 0]
    ELSE With(SkipSpace(s, p), LAMBDA a :
         With(SkipSpace(s, a + 2), LAMBDA b :
         With(SkipSpace(s, b + Len(VersionTag)), LAMBDA c :
         With(RunEnd(s, c, DigitSet), LAMBDA d :
             IF /\ StartsAt(s, a, "--")
                /\ b + Len(VersionTag) - 1 <= Len(s)
                /\ Lower(SubSeq(s, b, b + Len(VersionTag) - 1)) = VersionTag
                /\ d >= c
             THEN [from |-> c, to |-> d]
             ELSE [from |-> 0, to |-> 0]))))

\* leftmost line start at or after p where the pattern matches, 0 if none
VersionSearch(s, p) == First(p, Len(s) + 1, LAMBDA k : VersionMatchAt(s, k).to # 0)

\* has_pass1_comment asking for a version above PASS1_VERSION
has_pass1_comment_newer(sql) ==
    With(VersionSearch(sql, 1), LAMBDA p :
        /\ p # 0
        /\ With(VersionMatchAt(sql, p), LAMBDA m :
               IntOf(SubSeq(sql, m.from, m.to), m.to - m.from + 1) > PASS1_VERSION))

has_pass1_comment(sql) ==
    With(VersionSearch(sql, 1), LAMBDA p :
        /\ p # 0
        /\ With(VersionMatchAt(sql, p), LAMBDA m :
               IntOf(SubSeq(sql, m.from, m.to), m.to - m.from + 1) >= PASS1_VERSION))

insert_pass1_comment(sql) ==
    With(VersionSearch(sql, 1), LAMBDA p :
        With(IF p = 0 THEN sql
             ELSE SubSeq(sql, 1, p - 1)
                  \o From(sql, SkipSpace(sql, VersionMatchAt(sql, p).to + 1)),
             LAMBDA cut : PASS1_COMMENT \o "\n" \o LStrip(cut)))

(***************************************************************************)
(* indent_sql_with_children and its child scans.  Lines are numbered from  *)
(* 1.  A while loop over the lines is the operator Fold applied to the     *)
(* loop's state st: st.i is the loop's cursor (the line the next iteration *)
(* handles), st.done tells that the loop has been left by break or return, *)
(* st.indents are the indentation levels.  <Loop>Step is one iteration of  *)
(* the loop body, for the line k = st.i.                                   *)
(***************************************************************************)
max_depth == 10

starts_with_major_clause(line) ==
    \E k \in DOMAIN MAJOR_CLAUSES : StartsWith(Upper(line), MAJOR_CLAUSES[k])

\* lines[j].count("(") - lines[j].count(")") summed over the lines 1..index,
\* which is the count over the concatenation of those lines
compute_depth_up_to(lines, index) ==
    With(Cat(lines, 1, index), LAMBDA text : Count(text, "(") - Count(text, ")"))

\* s.split()[0] for a text with no leading white space
FirstWord(s) == SubSeq(s, 1, NextSpace(s, 1) - 1)

\* re.match(r"(^CASE$|.*\bCASE\b$)", upper)
MatchesCaseEnd(upper) ==
    /\ EndsWith(upper, "CASE")
    /\ ~IsWord(Ch(upper, Len(upper) - 4))

RECURSIVE Fold(_, _, _, _, _)

\* process_case_block with return start_index at line 329
process_case_block_stay(lines, indents, start_index, depth) ==
    IF depth > max_depth THEN [i |-> start_index, indents |-> indents]
    ELSE With(Fold("case",
                   [lines |-> lines, base_indent |-> indents[start_index],
                    depth |-> depth],
                   start_index + 1, Len(lines),
                   [i |-> start_index + 1, done |-> FALSE, indents |-> indents]),
              LAMBDA r : [i |-> r.i, indents |-> r.indents])

\* the result is the record [i, indents]: the returned cursor and the levels
process_case_block(lines, indents, start_index, depth) ==
    IF depth > max_depth THEN [i |-> start_index + 1, indents |-> indents]
    ELSE With(Fold("case",
                   [lines |-> lines, base_indent |-> indents[start_index],
                    depth |-> depth],
                   start_index + 1, Len(lines),
                   [i |-> start_index + 1, done |-> FALSE, indents |-> indents]),
              LAMBDA r : [i |-> r.i, indents |-> r.indents])

CaseStep(env, k, st) ==
    With(Upper(Strip(env.lines[k])), LAMBDA upper :
        LET base_indent == env.base_indent
            level == IF StartsWith(upper, "WHEN") THEN base_indent + 1
                     ELSE IF StartsWith(upper, "THEN") THEN base_indent + 2
                     ELSE IF StartsWith(upper, "ELSE") THEN base_indent + 2
                     ELSE Max(st.indents[k], base_indent + 2)
        IN  IF upper = "" THEN [st EXCEPT !.i = k + 1]
            ELSE IF StartsWith(upper, "END")
                 THEN [i |-> k + 1, done |-> TRUE,
                       indents |-> [st.indents EXCEPT ![k] = base_indent + 1]]
            ELSE IF MatchesCaseEnd(upper)
                 THEN With(process_case_block(env.lines,
                                              [st.indents EXCEPT ![k] = level],
                                              k, env.depth + 1),
                           LAMBDA nested :
                               [i |-> nested.i, done |-> FALSE,
                                indents |-> nested.indents])
            ELSE [i |-> k + 1, done |-> FALSE,
                  indents |-> [st.indents EXCEPT ![k] = level]])

ParenStep(env, k, st) ==
    With(Strip(env.lines[k]), LAMBDA stripped :
        With(st.depth + Count(stripped, "(") - Count(stripped, ")"), LAMBDA depth :
            IF depth <= 0 THEN [st EXCEPT !.depth = depth, !.done = TRUE]
            ELSE [i |-> k + 1, depth |-> depth, done |-> FALSE,
                  indents |-> [st.indents EXCEPT ![k] = @ + 1]]))

process_parentheses_block(lines, indents, start_index) ==
    With(Fold("paren", [lines |-> lines], start_index + 1, Len(lines),
              [i |-> start_index + 1, depth |-> 1, done |-> FALSE,
               indents |-> indents]),
         LAMBDA r : [i |-> r.i, indents |-> r.indents])

MajorStep(env, k, st) ==
    With(Strip(env.lines[k]), LAMBDA stripped :
        IF stripped = "" THEN [st EXCEPT !.i = k + 1]
        ELSE With(compute_depth_up_to(env.lines, k - 1), LAMBDA depth_before :
            LET depth_after == depth_before + Count(env.lines[k], "(")
                                            - Count(env.lines[k], ")")
                relative_before == depth_before - env.clause_base_depth
                relative_after == depth_after - env.clause_base_depth
                extra_select_indent ==
                    IF env.clause_type = "SELECT" /\ ~StartsWith(stripped, ",")
                    THEN 1 ELSE 0
            IN  IF \/ StartsWith(stripped, ";")
                   \/ starts_with_major_clause(stripped) /\ relative_before = 0
                   \/ relative_after < 0
                THEN [st EXCEPT !.done = TRUE]
                ELSE [i |-> k + 1, done |-> FALSE,
                      indents |-> [st.indents EXCEPT
                                     ![k] = @ + 1 + extra_select_indent]]))

process_major_clause(lines, indents, start_index) ==
    With(Fold("major",
              [lines |-> lines,
               clause_type |-> FirstWord(Upper(Strip(lines[start_index]))),
               clause_base_depth |-> compute_depth_up_to(lines, start_index - 1)],
              start_index + 1, Len(lines),
              [i |-> start_index + 1, done |-> FALSE, indents |-> indents]),
         LAMBDA r : [i |-> r.i, indents |-> r.indents])

\* one iteration of the main loop of indent_sql_with_children
IndentStep(env, k, st) ==
    With(Strip(env.lines[k]), LAMBDA stripped :
        LET paren_trigger == EndsWith(stripped, "(")
            major_trigger == starts_with_major_clause(stripped)
            case_trigger == EndsWith(Upper(stripped), "CASE")
        IN  IF stripped = "" THEN [st EXCEPT !.i = k + 1]
            ELSE IF case_trigger
                 THEN With(process_case_block(env.lines, st.indents, k, 0),
                           LAMBDA case :
                               [i |-> case.i, done |-> FALSE, indents |-> case.indents])
            ELSE With(IF paren_trigger
                      THEN process_parentheses_block(env.lines, st.indents, k).indents
                      ELSE st.indents,
                      LAMBDA afterParen :
                          [i |-> k + 1, done |-> FALSE,
                           indents |-> IF major_trigger
                                       THEN process_major_clause(env.lines, afterParen,
                                                                 k).indents
                                       ELSE afterParen]))

(***************************************************************************)
(* reindent_sql of sql_format_pass_1.py: the indenter of the tool.  The    *)
(* frames of clause_stack are the dicts the source pushes.                 *)
(***************************************************************************)
reindent_MAJOR_CLAUSES ==
    << "SELECT", "FROM", "WHERE", "GROUP BY", "ORDER BY", "HAVING", "LIMIT",
       "UNION", "JOIN", "LEFT JOIN", "RIGHT JOIN", "FULL JOIN",
       "INNER JOIN", "OUTER JOIN", "CROSS JOIN",
       "LEFT OUTER JOIN", "RIGHT OUTER JOIN",
       "EXCEPT", "INTERSECT", "MINUS", "QUALIFY", "USING" >>

is_major_clause(line) ==
    With(Upper(line), LAMBDA upper :
        \E k \in DOMAIN reindent_MAJOR_CLAUSES :
            \/ upper = reindent_MAJOR_CLAUSES[k]
            \/ StartsWith(upper, reindent_MAJOR_CLAUSES[k] \o " "))

Frame(type, keyword, inherited_indent) ==
    [type |-> type, keyword |-> keyword, inherited_indent |-> inherited_indent]

RECURSIVE current_indent_offset(_)
current_indent_offset(clause_stack) ==
    IF clause_stack = << >> THEN 0
    ELSE current_indent_offset(SubSeq(clause_stack, 1, Len(clause_stack) - 1))
         + clause_stack[Len(clause_stack)].inherited_indent

\* while clause_stack and P(clause_stack[-1]): clause_stack.pop()
PopWhile(clause_stack, P(_)) ==
    SubSeq(clause_stack, 1, Last(1, Len(clause_stack), LAMBDA k : ~P(clause_stack[k])))

\* clause_stack.pop()
Pop(clause_stack) == SubSeq(clause_stack, 1, Len(clause_stack) - 1)

\* what one iteration of the loop of reindent_sql leaves: the line it has
\* appended to result, or raised when it has raised IndexError
Emitted(line, clause_stack, after_select) ==
    [raised |-> FALSE, line |-> line, clause_stack |-> clause_stack,
     after_select |-> after_select]

\* the pops before a WHEN, THEN or ELSE line
case_pops(upper, clause_stack) ==
    IF StartsWith(upper, "WHEN")
    THEN PopWhile(clause_stack, LAMBDA e : e.type \in {"WHEN", "THEN/ELSE"})
    ELSE IF StartsWith(upper, "THEN") \/ StartsWith(upper, "ELSE")
         THEN PopWhile(clause_stack, LAMBDA e : e.type = "THEN/ELSE")
         ELSE clause_stack

\* the handling of a line that starts with ")": done when the line has been
\* emitted (continue), raised when clause_stack[-1] is read on an empty list
close_paren(stripped, clause_stack, indent) ==
    IF ~(StartsWith(stripped, ")") /\ clause_stack # << >>)
    THEN [done |-> FALSE, raised |-> FALSE, line |-> "", clause_stack |-> clause_stack]
    ELSE With(IF clause_stack[Len(clause_stack)].type = "PAREN"
              THEN Pop(clause_stack) ELSE clause_stack,
              LAMBDA s :
        IF s = << >>
        THEN [done |-> FALSE, raised |-> TRUE, line |-> "", clause_stack |-> s]
        ELSE IF s[Len(s)].type \in {"OVER", "WITHIN_GROUP"}
        THEN [done |-> TRUE, raised |-> FALSE,
              line |-> Repeat(indent, current_indent_offset(s)) \o stripped,
              clause_stack |-> Pop(s)]
        ELSE With(PopWhile(s, LAMBDA e : e.keyword # "("), LAMBDA t :
                 [done |-> FALSE, raised |-> FALSE, line |-> "",
                  clause_stack |-> IF t # << >> THEN Pop(t) ELSE t]))

\* the special handling of a line that starts with END
end_line(stripped, clause_stack, after_select, indent) ==
    With(PopWhile(clause_stack, LAMBDA e : e.type \in {"THEN/ELSE", "WHEN"}), LAMBDA s :
        Emitted(Repeat(indent, current_indent_offset(s))
                    \o (IF after_select THEN "  " ELSE "") \o stripped,
                IF s # << >> /\ s[Len(s)].type = "CASE" THEN Pop(s) ELSE s,
                FALSE))

\* the frames pushed behind the emitted line
pushes(stripped, upper, clause_stack, after_select) ==
    With(IF is_major_clause(stripped)
         THEN IF /\ StartsWith(upper, "ORDER BY")
                 /\ \E k \in DOMAIN clause_stack :
                        clause_stack[k].type \in {"OVER", "WITHIN_GROUP"}
              THEN << clause_stack, after_select >>
              ELSE << Append(clause_stack, Frame("CLAUSE", FirstWord(upper), 1)),
                      StartsWith(upper, "SELECT") >>
         ELSE IF EndsWith(upper, "CASE")
         THEN << Append(clause_stack, Frame("CASE", "CASE", 1)), after_select >>
         ELSE IF StartsWith(upper, "WHEN")
         THEN << Append(clause_stack, Frame("WHEN", "WHEN", 1)), after_select >>
         ELSE IF StartsWith(upper, "THEN") \/ StartsWith(upper, "ELSE")
         THEN << Append(clause_stack, Frame("THEN/ELSE", FirstWord(upper), 2)),
                 after_select >>
         ELSE IF StartsWith(upper, "AND") \/ StartsWith(upper, "OR")
         THEN << Append(clause_stack,
                        Frame("AND/OR", FirstWord(upper),
                              IF \E k \in DOMAIN clause_stack :
                                     clause_stack[k].type = "CASE"
                              THEN 1 ELSE 0)),
                 after_select >>
         ELSE << clause_stack, after_select >>,
         LAMBDA p :
        << IF EndsWith(stripped, "(") THEN Append(p[1], Frame("PAREN", "(", 1)) ELSE p[1],
           p[2] >>)

\* the OVER and WITHIN GROUP pushes, the emitted line and the pushes behind it
body_line(stripped, upper, clause_stack, after_select, indent) ==
    With(clause_stack
             \o (IF Contains(upper, "OVER (")
                 THEN << Frame("OVER", "OVER", 1) >> ELSE << >>)
             \o (IF Contains(upper, "WITHIN GROUP (")
                 THEN << Frame("WITHIN_GROUP", "WITHIN GROUP", 1) >> ELSE << >>),
         LAMBDA s :
        With(after_select /\ ~is_major_clause(stripped) /\ upper # "SELECT", LAMBDA extra :
            With(pushes(stripped, upper, s, IF extra THEN FALSE ELSE after_select), LAMBDA p :
                Emitted(Repeat(indent, current_indent_offset(s))
                            \o (IF extra THEN "  " ELSE "") \o stripped,
                        p[1], p[2]))))

\* reindent_line without the clause_stack.clear() of line 815
reindent_line_keep_stack(raw_line, clause_stack, after_select, indent) ==
    With(Strip(raw_line), LAMBDA stripped :
        With(Upper(stripped), LAMBDA upper :
            IF StartsWith(stripped, "/*") \/ StartsWith(stripped, "--")
            THEN Emitted(stripped, clause_stack, after_select)
            ELSE IF stripped = ";"
            THEN Emitted(";", clause_stack, FALSE)
            ELSE With(close_paren(stripped, case_pops(upper, clause_stack), indent),
                      LAMBDA c :
                IF c.raised THEN [Emitted("", c.clause_stack, after_select)
                                      EXCEPT !.raised = TRUE]
                ELSE IF c.done THEN Emitted(c.line, c.clause_stack, after_select)
                ELSE With(IF /\ is_major_clause(stripped)
                             /\ c.clause_stack # << >>
                             /\ c.clause_stack[Len(c.clause_stack)].type = "CLAUSE"
                          THEN Pop(c.clause_stack) ELSE c.clause_stack,
                          LAMBDA s :
                    IF StartsWith(upper, "END")
                    THEN end_line(stripped, s, after_select, indent)
                    ELSE body_line(stripped, upper, s, after_select, indent)))))

\* reindent_line with result.append(raw_line) at line 810
reindent_line_raw_comment(raw_line, clause_stack, after_select, indent) ==
    With(Strip(raw_line), LAMBDA stripped :
        With(Upper(stripped), LAMBDA upper :
            IF StartsWith(stripped, "/*") \/ StartsWith(stripped, "--")
            THEN Emitted(raw_line, clause_stack, after_select)
            ELSE IF stripped = ";"
            THEN Emitted(";", << >>, FALSE)
            ELSE With(close_paren(stripped, case_pops(upper, clause_stack), indent),
                      LAMBDA c :
                IF c.raised THEN [Emitted("", c.clause_stack, after_select)
                                      EXCEPT !.raised = TRUE]
                ELSE IF c.done THEN Emitted(c.line, c.clause_stack, after_select)
                ELSE With(IF /\ is_major_clause(stripped)
                             /\ c.clause_stack # << >>
                             /\ c.clause_stack[Len(c.clause_stack)].type = "CLAUSE"
                          THEN Pop(c.clause_stack) ELSE c.clause_stack,
                          LAMBDA s :
                    IF StartsWith(upper, "END")
                    THEN end_line(stripped, s, after_select, indent)
                    ELSE body_line(stripped, upper, s, after_select, indent)))))

\* the body of the loop  for raw_line in lines
reindent_line(raw_line, clause_stack, after_select, indent) ==
    With(Strip(raw_line), LAMBDA stripped :
        With(Upper(stripped), LAMBDA upper :
            IF StartsWith(stripped, "/*") \/ StartsWith(stripped, "--")
            THEN Emitted(stripped, clause_stack, after_select)
            ELSE IF stripped = ";"
            THEN Emitted(";", << >>, FALSE)
            ELSE With(close_paren(stripped, case_pops(upper, clause_stack), indent),
                      LAMBDA c :
                IF c.raised THEN [Emitted("", c.clause_stack, after_select)
                                      EXCEPT !.raised = TRUE]
                ELSE IF c.done THEN Emitted(c.line, c.clause_stack, after_select)
                ELSE With(IF /\ is_major_clause(stripped)
                             /\ c.clause_stack # << >>
                             /\ c.clause_stack[Len(c.clause_stack)].type = "CLAUSE"
                          THEN Pop(c.clause_stack) ELSE c.clause_stack,
                          LAMBDA s :
                    IF StartsWith(upper, "END")
                    THEN end_line(stripped, s, after_select, indent)
                    ELSE body_line(stripped, upper, s, after_select, indent)))))

ReindentStep(env, k, st) ==
    With(reindent_line(env.lines[k], st.clause_stack, st.after_select, env.indent),
         LAMBDA r :
        IF r.raised
        THEN [st EXCEPT !.done = TRUE, !.raised = TRUE]
        ELSE [i |-> k + 1, done |-> FALSE, raised |-> FALSE,
              clause_stack |-> r.clause_stack, after_select |-> r.after_select,
              result |-> Append(st.result, r.line)])

StepAt(kind, env, k, st) ==
    CASE kind = "case" -> CaseStep(env, k, st)
      [] kind = "paren" -> ParenStep(env, k, st)
      [] kind = "major" -> MajorStep(env, k, st)
      [] kind = "indent" -> IndentStep(env, k, st)
      [] kind = "reindent" -> ReindentStep(env, k, st)
      [] kind = "cte" -> CteStep(env, k, st)

\* The while loop of the given kind over the lines a..b, entered in state
\* st: the state in which it leaves them.
Fold(kind, env, a, b, st) ==
    IF a > b \/ st.done \/ st.i > b THEN st
    ELSE IF a = b THEN StepAt(kind, env, a, st)
    ELSE LET s1 == Fold(kind, env, PartLo(a, b, 1), PartHi(a, b, 1), st)
             s2 == Fold(kind, env, PartLo(a, b, 2), PartHi(a, b, 2), s1)
             s3 == Fold(kind, env, PartLo(a, b, 3), PartHi(a, b, 3), s2)
             s4 == Fold(kind, env, PartLo(a, b, 4), PartHi(a, b, 4), s3)
             s5 == Fold(kind, env, PartLo(a, b, 5), PartHi(a, b, 5), s4)
             s6 == Fold(kind, env, PartLo(a, b, 6), PartHi(a, b, 6), s5)
             s7 == Fold(kind, env, PartLo(a, b, 7), PartHi(a, b, 7), s6)
         IN  Steps(<< s1, s2, s3, s4, s5, s6, s7 >>,
                   Fold(kind, env, PartLo(a, b, 8), PartHi(a, b, 8), s7))

indent_levels(lines) ==
    Fold("indent", [lines |-> lines], 1, Len(lines),
         [i |-> 1, done |-> FALSE, indents |-> [k \in 1..Len(lines) |-> 0]]).indents

indent_sql_with_children(sql) ==
    With(SplitLines(sql), LAMBDA lines :
        With(indent_levels(lines), LAMBDA indents :
            JoinLines([k \in 1..Len(lines) |->
                          With(Strip(lines[k]), LAMBDA stripped :
                              IF stripped # ""
                              THEN Repeat(INDENT, indents[k]) \o stripped
                              ELSE "")])))

\* reindent_sql(sql): text is the text returned, raised tells that the call
\* has raised IndexError instead
reindent_sql(sql, indent) ==
    With(SplitLines(sql), LAMBDA lines :
        With(Fold("reindent", [lines |-> lines, indent |-> indent], 1, Len(lines),
                  [i |-> 1, done |-> FALSE, raised |-> FALSE, clause_stack |-> << >>,
                   after_select |-> FALSE, result |-> << >>]),
             LAMBDA r : [raised |-> r.raised, text |-> JoinLines(r.result)]))


(***************************************************************************)
(* The stages of process_sql_file of sql_format_pass_1.py (the tool).  Its *)
(* extract_placeholders and restore_placeholders are, statement for        *)
(* statement, the ones of scripts/sql_format_pass_1.py modelled above.     *)
(***************************************************************************)
\* re.sub(r'\s+', ' ', sql).strip()
flatten_whitespace(sql) == Strip(ReSub("whitespace", sql, << >>))

convert_sql_to_uppercase(sql) == Upper(sql)

\* the tokens of sql and the indexes of those that start a statement
sqlparse_parse(sql) ==
    With(Scan("sqlparse", sql, << >>).items, LAMBDA spans :
        With([k \in 1..Len(spans) |-> SubSeq(sql, spans[k][1], spans[k][2])], LAMBDA tokens :
            LET level(j) == Cardinality({p \in 1..j : tokens[p] = "("})
                            - Cardinality({p \in 1..j : tokens[p] = ")"})
                            - Cardinality({p \in 1..j : Upper(tokens[p]) = "END"})
                splits(j) == j # 0 /\ tokens[j] = ";" /\ level(j) <= 0
            IN  [tokens |-> tokens,
                 starts |-> {k \in 1..Len(tokens) :
                                ~IsSpaceToken(tokens[k])
                                    /\ splits(PrevNonSpace(tokens, k - 1))}]))

insert_newlines_before_keywords(sql) ==
    With(sqlparse_parse(sql), LAMBDA p :
        Emit("keyword_tokens", [s |-> p.tokens, starts |-> p.starts], 1, Len(p.tokens),
             [i |-> 1, result |-> << >>]).out)

\* is_complex_parentheses: the loop that removes "()" from temp n times
RECURSIVE RemovePairs(_, _)
RemovePairs(temp, n) ==
    IF n <= 0 THEN temp ELSE RemovePairs(Replace(temp, "()", ""), n - 1)

is_complex_parentheses(paren_only) ==
    Len(RemovePairs(paren_only, Count(paren_only, "("))) > 0

\* the body of the loop over the lines: final_line
paren_comma_line(line) ==
    With(RStrip(line), LAMBDA stripped :
      With(JoinAll([k \in 1..Len(stripped) |->
                       IF Ch(stripped, k) \in {"(", ")"} THEN Ch(stripped, k) ELSE ""]),
           LAMBDA paren_only :
        With(Emit("forward", [s |-> stripped], 1, Len(stripped),
                  [i |-> 1, depth |-> 0]).out, LAMBDA forward_result :
          With(Emit("backward", [s |-> forward_result], 1, Len(forward_result),
                    [i |-> 1, depth |-> 0]).items, LAMBDA backward_chars :
            With(JoinAll([k \in 1..Len(backward_chars) |->
                             backward_chars[Len(backward_chars) + 1 - k]]),
                 LAMBDA paren_fixed :
                Emit("commas",
                     [s |-> paren_fixed,
                      has_complex_parens |->
                          paren_only # "" /\ is_complex_parentheses(paren_only)],
                     1, Len(paren_fixed),
                     [i |-> 1, paren_depth |-> 0, buffer |-> ""]).out)))))

insert_newlines_for_parens_and_commas(sql) ==
    With(SplitLines(sql), LAMBDA lines :
        JoinLines([k \in 1..Len(lines) |-> paren_comma_line(lines[k])]))

\* the loop of add_noqa_comments over unfixable[k], ..., unfixable[-1]
RECURSIVE NoqaFrom(_, _, _)
NoqaFrom(lines, unfixable, k) ==
    IF k > Len(unfixable) THEN lines
    ELSE With(unfixable[k], LAMBDA violation :
             With(violation.start_line_no - 1, LAMBDA line_no :
                 NoqaFrom(IF /\ 0 <= line_no
                             /\ line_no < Len(lines)
                             /\ ~Contains(lines[line_no + 1], "-- noqa: " \o violation.code)
                          THEN [lines EXCEPT ![line_no + 1] =
                                    @ \o "  -- noqa: " \o violation.code \o " :: "
                                      \o violation.description]
                          ELSE lines,
                          unfixable, k + 1)))

add_noqa_comments(sql, unfixable) == JoinLines(NoqaFrom(SplitLines(sql), unfixable, 1))

add_newline_after_cte_closing(sql) ==
    With(SplitLines(sql), LAMBDA lines :
        JoinLines(Fold("cte", [lines |-> lines], 1, Len(lines),
                       [i |-> 1, done |-> FALSE, inside_with |-> FALSE, paren_depth |-> 0,
                        cte_depth_trigger |-> << >>, output |-> << >>]).output))

convert_single_to_block_comments(sql) == ReSub("dash_comment", sql, << >>)

\* the lines that the loop of move_inline_block_comments appends to output
\* for line; the match of r"(.*?)(/\*.*?\*/)(.*)" starts its comment at p
\* and ends it at q + 1
moved_comment(line) ==
    With(Find(line, 1, "/*"), LAMBDA p :
      With(IF p = 0 THEN 0 ELSE Find(line, p + 2, "*/"), LAMBDA q :
        IF q = 0 THEN << line >>
        ELSE With(RStrip(SubSeq(line, 1, p - 1)), LAMBDA before :
               With(Strip(From(line, q + 2)), LAMBDA after :
                 With(SubSeq(line, p, q + 1), LAMBDA comment :
                   IF before # "" /\ after = "" THEN << comment, before >>
                   ELSE IF before # "" /\ after # ""
                   THEN << comment, before \o " " \o after >>
                   ELSE IF before = "" /\ after # "" THEN << comment, after >>
                   ELSE << comment >>)))))

move_inline_block_comments(sql) ==
    With(SplitLines(sql), LAMBDA lines :
        JoinLines([k \in 1..Len(lines) |-> JoinLines(moved_comment(lines[k]))]))

strip_indentation(sql) ==
    With(SplitLines(sql), LAMBDA lines :
        JoinLines([k \in 1..Len(lines) |-> LStrip(lines[k])]))

(***************************************************************************)
(* process_sql_file of scripts/sql_format_pass_1.py, one call after the    *)
(* other on one SQL file.  A call runs its statements in order; pc names   *)
(* the statement it runs next ("idle" between calls).  The audit folder is *)
(* the function audit from file names (without the directory and the       *)
(* "<stem>_" prefix all of them share) to contents.                        *)
(***************************************************************************)
VARIABLES
    file,                   \* content of the SQL file on disk
    audit,                  \* files of the audit folder
    calls,                  \* number of calls of process_sql_file started
    debug,                  \* debug flag of the running call
    pc,                     \* next statement of the running call
    raw_sql, placeholders, formatted, restored, finalized,
    restored_with_comment, diff_detected, stage_counter,   \* its locals
    status                  \* return value of the last call that returned

\* A function applied on its own: fn names the function ("" before it is
\* applied), arg is its argument and ret the value it returned.
VARIABLES fn, arg, ret

\* reindent_sql of the tool, one line of its loop after the other: the lines
\* it was called on, the index of the line the loop handles next, its locals
\* and how the call has ended ("" while it runs)
VARIABLES lines, index, clause_stack, result, after_select, outcome, indents

\* process_sql_file of the tool: the content of the file at filepath, the
\* files of its audit folder, the temporary files in the folder of the
\* file, the debug flag, the locals and the next statement of the call
VARIABLES filepath, audit_path, temp_files, tool_debug, sql, tool_placeholders,
          stage, tool_pc

pvars == << file, audit, calls, debug, pc, raw_sql, placeholders, formatted,
            restored, finalized, restored_with_comment, diff_detected,
            stage_counter, status >>

fvars == << fn, arg, ret >>

rvars == << lines, index, clause_stack, result, after_select, outcome, indents >>

tvars == << filepath, audit_path, temp_files, tool_debug, sql, tool_placeholders,
            stage, tool_pc >>

vars == << pvars, fvars, rvars, tvars >>

\* number of pieces an input text is made of, number of calls on one file
MaxPieces == 2
MaxCalls == 3

\* the texts made of 1..n pieces of P
Texts(P, n) == UNION {{JoinAll(sq) : sq \in [1..k -> P]} : k \in 1..n}

\* statements, and texts put before or behind them
Pieces ==
    { "SELECT a,b,c FROM t", "SELECT ( a FROM t", "SELECT COALESCE(a,b,c) FROM t",
      "SELECT CASE WHEN x THEN 1 ELSE 2 END FROM t", "SELECT 'x--y' FROM t",
      "SELECT a\tFROM t", " WHERE a<=b", " WHERE a\\sb", " -- c\n", ";", ")",
      "-- sqlfluff-pass1-version: 1\n", "-- sqlfluff-pass1-version: 0\n" }

Files == Texts(Pieces, MaxPieces)

\* f"{n:02d}"
Pad2(n) == IF n < 10 THEN "0" \o Digits(n) ELSE Digits(n)

\* path.write_text(content) in the folder files
WriteText(files, name, content) ==
    [n \in DOMAIN files \cup {name} |-> IF n = name THEN content ELSE files[n]]

\* debug_write(stage_name, content), and the move to the statement next
debug_write(stage_name, content, next) ==
    /\ pc' = next
    /\ audit' = IF debug
                THEN WriteText(audit, Pad2(stage_counter) \o "_" \o stage_name \o ".sql",
                               content)
                ELSE audit
    /\ stage_counter' = IF debug THEN stage_counter + 1 ELSE stage_counter

\* no call is running
Idle ==
    /\ audit = << >>
    /\ calls = 0
    /\ debug = FALSE
    /\ pc = "idle"
    /\ raw_sql = ""
    /\ placeholders = << >>
    /\ formatted = ""
    /\ restored = ""
    /\ finalized = ""
    /\ restored_with_comment = ""
    /\ diff_detected = FALSE
    /\ stage_counter = 1
    /\ status = ""

\* no function has been applied
NoFunction ==
    /\ fn = ""
    /\ arg = ""
    /\ ret = ""

\* reindent_sql has not been called
NoReindent ==
    /\ lines = << >>
    /\ index = 1
    /\ clause_stack = << >>
    /\ result = << >>
    /\ after_select = FALSE
    /\ outcome = ""
    /\ indents = << >>

\* process_sql_file of the tool has not been called
NoTool ==
    /\ audit_path = << >>
    /\ temp_files = << >>
    /\ tool_debug = FALSE
    /\ sql = ""
    /\ tool_placeholders = << >>
    /\ stage = 1
    /\ tool_pc = "idle"

Init ==
    /\ file \in Files
    /\ Idle
    /\ NoFunction
    /\ NoReindent
    /\ filepath = ""
    /\ NoTool

\* the call, up to the early return or the creation of the audit folder
Call ==
    /\ pc = "idle"
    /\ calls < MaxCalls
    /\ calls' = calls + 1
    /\ raw_sql' = file
    /\ \E d \in BOOLEAN : debug' = d
    /\ stage_counter' = 1
    /\ IF has_pass1_comment(file)
       THEN /\ status' = "already_formatted"
            /\ pc' = "idle"
       ELSE /\ status' = status
            /\ pc' = "extract_placeholders"
    /\ UNCHANGED << file, audit, placeholders, formatted, restored, finalized,
                    restored_with_comment, diff_detected, fvars, rvars, tvars >>

ExtractPlaceholders ==
    /\ pc = "extract_placeholders"
    /\ With(extract_placeholders(raw_sql), LAMBDA r :
           /\ formatted' = r.text
           /\ placeholders' = r.reps)
    /\ debug_write("placeholders", formatted', "flatten_sql_whitespace")
    /\ UNCHANGED << file, calls, debug, raw_sql, restored, finalized,
                    restored_with_comment, diff_detected, status, fvars, rvars, tvars >>

\* what the statements  formatted = stage(formatted)  leave as it is
stage_frame ==
    << file, calls, debug, raw_sql, placeholders, restored, finalized,
       restored_with_comment, diff_detected, status, fvars, rvars, tvars >>

FlattenWhitespace ==
    /\ pc = "flatten_sql_whitespace"
    /\ formatted' = flatten_sql_whitespace(formatted, FALSE)
    /\ debug_write("flatten", formatted', "normalize_operators")
    /\ UNCHANGED stage_frame

NormalizeOperators ==
    /\ pc = "normalize_operators"
    /\ formatted' = normalize_operators(formatted)
    /\ debug_write("format_operators", formatted', "format_sql_keywords")
    /\ UNCHANGED stage_frame

FormatKeywords ==
    /\ pc = "format_sql_keywords"
    /\ formatted' = format_sql_keywords(formatted)
    /\ debug_write("newline_keywords", formatted', "format_sql_commas")
    /\ UNCHANGED stage_frame

FormatCommas ==
    /\ pc = "format_sql_commas"
    /\ formatted' = format_sql_commas(formatted)
    /\ debug_write("newline_commas", formatted', "format_parentheses")
    /\ UNCHANGED stage_frame

FormatParentheses ==
    /\ pc = "format_parentheses"
    /\ formatted' = format_parentheses(formatted)
    /\ debug_write("format_parentheses", formatted', "indent_sql_with_children")
    /\ UNCHANGED stage_frame

Indent ==
    /\ pc = "indent_sql_with_children"
    /\ formatted' = indent_sql_with_children(formatted)
    /\ debug_write("indentation", formatted', "restore_placeholders")
    /\ UNCHANGED stage_frame

RestorePlaceholders ==
    /\ pc = "restore_placeholders"
    /\ formatted' = restore_placeholders(formatted, placeholders)
    /\ debug_write("placeholders_restored", formatted', "ensure_comment_newlines")
    /\ UNCHANGED stage_frame

CommentNewlines ==
    /\ pc = "ensure_comment_newlines"
    /\ restored' = ensure_comment_newlines(formatted)
    /\ debug_write("newline_comments", restored', "finalize_newlines")
    /\ UNCHANGED << file, calls, debug, raw_sql, placeholders, formatted, finalized,
                    restored_with_comment, diff_detected, status, fvars, rvars, tvars >>

FinalizeNewlines ==
    /\ pc = "finalize_newlines"
    /\ finalized' = finalize_newlines(restored)
    /\ debug_write("finalize_newlines", finalized', "insert_pass1_comment")
    /\ UNCHANGED << file, calls, debug, raw_sql, placeholders, formatted, restored,
                    restored_with_comment, diff_detected, status, fvars, rvars, tvars >>

VersionComment ==
    /\ pc = "insert_pass1_comment"
    /\ restored_with_comment' = insert_pass1_comment(finalized)
    /\ debug_write("with_version_comment", restored_with_comment', "diff_check")
    /\ UNCHANGED << file, calls, debug, raw_sql, placeholders, formatted, restored,
                    finalized, diff_detected, status, fvars, rvars, tvars >>

DiffCheck ==
    /\ pc = "diff_check"
    /\ With(Lower(flatten_sql_whitespace(raw_sql, TRUE)), LAMBDA pre_flat :
       With(Lower(flatten_sql_whitespace(finalized, TRUE)), LAMBDA post_flat :
           diff_detected' = (pre_flat # post_flat)))
    /\ pc' = "write_audit_files"
    /\ UNCHANGED << file, audit, calls, debug, raw_sql, placeholders, formatted,
                    restored, finalized, restored_with_comment, stage_counter,
                    status, fvars, rvars, tvars >>

\* write_audit_files(filename, raw_sql, restored, restored_with_comment,
\*                   diff_detected, mirror_audit, last_stage_num=stage_counter)
write_audit_files(files, pre_sql, post_sql, post_sql_with_comment, diff, last_stage_num) ==
    With(WriteText(files, "00_pre_format.sql", pre_sql), LAMBDA pre :
        IF diff
        THEN With(flatten_sql_whitespace(pre_sql, TRUE) \o "\n"
                  \o flatten_sql_whitespace(post_sql, TRUE),
                  LAMBDA text :
                      WriteText(WriteText(pre, Pad2(last_stage_num) \o "_diff.txt", text),
                                Pad2(last_stage_num + 1) \o "_post_format.sql",
                                post_sql_with_comment))
        ELSE WriteText(pre, Pad2(last_stage_num) \o "_post_format.sql",
                       post_sql_with_comment))

WriteAuditFiles ==
    /\ pc = "write_audit_files"
    /\ audit' = write_audit_files(audit, raw_sql, restored, restored_with_comment,
                                  diff_detected, stage_counter)
    /\ pc' = "write_text"
    /\ UNCHANGED << file, calls, debug, raw_sql, placeholders, formatted, restored,
                    finalized, restored_with_comment, diff_detected, stage_counter,
                    status, fvars, rvars, tvars >>

\* the last statements: the file is replaced unless debug is set, and the
\* call returns
WriteBack ==
    /\ pc = "write_text"
    /\ file' = IF ~debug THEN restored_with_comment ELSE file
    /\ status' = IF diff_detected THEN "diff_detected" ELSE "formatted"
    /\ pc' = "idle"
    /\ UNCHANGED << audit, calls, debug, raw_sql, placeholders, formatted, restored,
                    finalized, restored_with_comment, diff_detected, stage_counter,
                    fvars, rvars, tvars >>

\* the ten stages of the pipeline, extract_placeholders to finalize_newlines
Pipeline ==
    \/ ExtractPlaceholders
    \/ FlattenWhitespace
    \/ NormalizeOperators
    \/ FormatKeywords
    \/ FormatCommas
    \/ FormatParentheses
    \/ Indent
    \/ RestorePlaceholders
    \/ CommentNewlines
    \/ FinalizeNewlines

Next ==
    \/ Call
    \/ Pipeline
    \/ VersionComment
    \/ DiffCheck
    \/ WriteAuditFiles
    \/ WriteBack

Spec == Init /\ [][Next]_vars

(***************************************************************************)
(* The pipeline run on its own output: the ten stages on the text arg,     *)
(* then once more on the text they returned.                               *)
(***************************************************************************)
InitIdem ==
    /\ file \in Files
    /\ audit = << >>
    /\ calls = 0
    /\ debug = FALSE
    /\ pc = "extract_placeholders"
    /\ raw_sql = file
    /\ placeholders = << >>
    /\ formatted = ""
    /\ restored = ""
    /\ finalized = ""
    /\ restored_with_comment = ""
    /\ diff_detected = FALSE
    /\ stage_counter = 1
    /\ status = ""
    /\ fn = "pipeline"
    /\ arg = file
    /\ ret = ""
    /\ NoReindent
    /\ filepath = ""
    /\ NoTool

Again ==
    /\ pc = "insert_pass1_comment"
    /\ fn = "pipeline"
    /\ fn' = "pipeline_again"
    /\ ret' = finalized
    /\ raw_sql' = finalized
    /\ pc' = "extract_placeholders"
    /\ UNCHANGED << file, audit, calls, debug, placeholders, formatted, restored,
                    finalized, restored_with_comment, diff_detected, stage_counter,
                    status, arg, rvars, tvars >>

NextIdem == Pipeline \/ Again

SpecIdem == InitIdem /\ [][NextIdem]_vars

(***************************************************************************)
(* format_sql_commas applied to a text                                     *)
(***************************************************************************)
MaxCommaPieces == 4

CommaPieces ==
    { "COALESCE(a", "max ((x", "sum(y) ", "t.f(", "(", ")", ",b", " ,\n c" }

CommaTexts == Texts(CommaPieces, MaxCommaPieces)

InitCommas ==
    /\ file = ""
    /\ Idle
    /\ fn = ""
    /\ arg \in CommaTexts
    /\ ret = ""
    /\ NoReindent
    /\ filepath = ""
    /\ NoTool

ApplyCommas ==
    /\ fn = ""
    /\ fn' = "format_sql_commas"
    /\ ret' = format_sql_commas(arg)
    /\ UNCHANGED << pvars, arg, rvars, tvars >>

NextCommas == ApplyCommas

SpecCommas == InitCommas /\ [][NextCommas]_vars


(***************************************************************************)
(* reindent_sql(sql) of the tool, called on the text made of lines         *)
(***************************************************************************)
MaxLines == 4

ReindentLines ==
    { "SELECT a", "x CASE", "WHEN a", "AND b", "THEN 1", "ELSE 2", "END", "f (", ")",
      ";", "", "-- c" }

InitReindent ==
    /\ file = ""
    /\ Idle
    /\ NoFunction
    /\ lines \in UNION {[1..n -> ReindentLines] : n \in 1..MaxLines}
    /\ index = 1
    /\ clause_stack = << >>
    /\ result = << >>
    /\ after_select = FALSE
    /\ outcome = ""
    /\ indents = << >>
    /\ filepath = ""
    /\ NoTool

\* an iteration of the loop that appends a line to result
ReindentLine ==
    /\ outcome = ""
    /\ index <= Len(lines)
    /\ With(reindent_line(lines[index], clause_stack, after_select, INDENT), LAMBDA r :
           /\ ~r.raised
           /\ result' = Append(result, r.line)
           /\ clause_stack' = r.clause_stack
           /\ after_select' = r.after_select)
    /\ index' = index + 1
    /\ UNCHANGED << pvars, fvars, tvars, lines, outcome, indents >>

\* an iteration that reads clause_stack[-1] of the empty list: the call ends
\* with IndexError
ReindentRaise ==
    /\ outcome = ""
    /\ index <= Len(lines)
    /\ reindent_line(lines[index], clause_stack, after_select, INDENT).raised
    /\ outcome' = "IndexError"
    /\ UNCHANGED << pvars, fvars, tvars, lines, index, clause_stack, result,
                    after_select, indents >>

\* return "\n".join(result)
ReindentReturn ==
    /\ outcome = ""
    /\ index > Len(lines)
    /\ outcome' = "returned"
    /\ ret' = JoinLines(result)
    /\ UNCHANGED << pvars, tvars, fn, arg, lines, index, clause_stack, result,
                    after_select, indents >>

NextReindent == ReindentLine \/ ReindentRaise \/ ReindentReturn

SpecReindent == InitReindent /\ [][NextReindent]_vars

(***************************************************************************)
(* reindent_sql(sql) on lines with window constructs, clause lines and     *)
(* surrounding white space                                                 *)
(***************************************************************************)
FrameLines ==
    { "SELECT a", "  FROM t ", "ORDER BY a", "AND b", "x OVER (", "f (", ")",
      "x CASE", "END", ";", " -- c " }

InitFrames ==
    /\ file = ""
    /\ Idle
    /\ NoFunction
    /\ lines \in UNION {[1..n -> FrameLines] : n \in 1..MaxLines}
    /\ index = 1
    /\ clause_stack = << >>
    /\ result = << >>
    /\ after_select = FALSE
    /\ outcome = ""
    /\ indents = << >>
    /\ filepath = ""
    /\ NoTool

SpecFrames == InitFrames /\ [][NextReindent]_vars

(***************************************************************************)
(* reindent_sql(sql) on the lines of CASE blocks                           *)
(***************************************************************************)
MaxCaseLines == 5

CaseLines == { "x CASE", "WHEN a", "AND b", "THEN 1", "END", "f (", ")" }

InitCase ==
    /\ file = ""
    /\ Idle
    /\ NoFunction
    /\ lines \in UNION {[1..n -> CaseLines] : n \in 1..MaxCaseLines}
    /\ index = 1
    /\ clause_stack = << >>
    /\ result = << >>
    /\ after_select = FALSE
    /\ outcome = ""
    /\ indents = << >>
    /\ filepath = ""
    /\ NoTool

SpecCase == InitCase /\ [][NextReindent]_vars

(***************************************************************************)
(* indent_sql_with_children(sql) of scripts/sql_format_pass_1.py, called   *)
(* on the text made of lines: index is the cursor i of its main loop (the  *)
(* first line has the number 1) and indents are the levels                 *)
(***************************************************************************)
IndentLines ==
    { "SELECT CASE", "SELECT a", "WHEN a THEN 1", "END AS x", ", b", "f (", ")",
      ";", "" }

InitIndent ==
    /\ file = ""
    /\ Idle
    /\ NoFunction
    /\ lines \in UNION {[1..n -> IndentLines] : n \in 1..MaxLines}
    /\ index = 1
    /\ clause_stack = << >>
    /\ result = << >>
    /\ after_select = FALSE
    /\ outcome = ""
    /\ indents = [k \in 1..Len(lines) |-> 0]
    /\ filepath = ""
    /\ NoTool

\* an iteration of the loop  while i < len(lines)
IndentIteration ==
    /\ outcome = ""
    /\ index <= Len(lines)
    /\ With(IndentStep([lines |-> lines], index,
                       [i |-> index, done |-> FALSE, indents |-> indents]),
            LAMBDA r : index' = r.i /\ indents' = r.indents)
    /\ UNCHANGED << pvars, fvars, tvars, lines, clause_stack, result, after_select,
                    outcome >>

\* the loop over zip(lines, indents) and return "\n".join(output)
IndentReturn ==
    /\ outcome = ""
    /\ index > Len(lines)
    /\ outcome' = "returned"
    /\ result' = [k \in 1..Len(lines) |->
                     With(Strip(lines[k]), LAMBDA stripped :
                         IF stripped # ""
                         THEN Repeat(INDENT, indents[k]) \o stripped
                         ELSE "")]
    /\ ret' = JoinLines(result')
    /\ UNCHANGED << pvars, tvars, fn, arg, lines, index, clause_stack, after_select,
                    indents >>

NextIndent == IndentIteration \/ IndentReturn

SpecIndent == InitIndent /\ [][NextIndent]_vars

(***************************************************************************)
(* process_sql_file(filepath, debug) of the tool, one statement after the  *)
(* other; tool_pc names the function that the call runs next.  sqlfluff is *)
(* a program run by subprocess: what it reports and what it leaves in the  *)
(* file it fixes is chosen among LintResults and FixResults.               *)
(***************************************************************************)
MaxToolPieces == 2

ToolPieces ==
    { "select a, 'x  y' from t", "select a -- c\nfrom t", "select f(a,b) from t;",
      "with b as (select 1) select * from b", "x ( a on b )", " /* c */",
      " where {{ v }} = 1", "\n  " }

ToolFiles == Texts(ToolPieces, MaxToolPieces)

\* the violations without a fix that sqlfluff lint reports for a text
LintResults ==
    { << >>, << [start_line_no |-> 1, code |-> "PRS", description |-> "unparsable"] >> }

\* what sqlfluff fix leaves in the file that held text
FixResults(text) == { text, text \o "\n" }

InitTool ==
    /\ file = ""
    /\ Idle
    /\ NoFunction
    /\ NoReindent
    /\ filepath \in ToolFiles
    /\ NoTool

\* write_stage(audit_path, stage, name, content, debug), and the move to the
\* statement next
write_stage(name, content, next) ==
    /\ tool_pc' = next
    /\ audit_path' = IF tool_debug
                     THEN WriteText(audit_path, Pad2(stage) \o "_" \o name \o ".sql", content)
                     ELSE audit_path
    /\ stage' = stage + 1

\* what the statements  sql = stage(sql)  leave as it is
tool_frame == << pvars, fvars, rvars, filepath, temp_files, tool_debug, tool_placeholders >>

\* the call up to the first write_stage: the audit folder is emptied and the
\* file is read
ToolCall ==
    /\ tool_pc = "idle"
    /\ \E d \in BOOLEAN : tool_debug' = d
    /\ sql' = filepath
    /\ audit_path' = IF tool_debug'
                     THEN WriteText(<< >>, Pad2(1) \o "_original.sql", sql')
                     ELSE << >>
    /\ stage' = 2
    /\ tool_pc' = "flatten_whitespace"
    /\ UNCHANGED << pvars, fvars, rvars, filepath, temp_files, tool_placeholders >>

ToolFlatten ==
    /\ tool_pc = "flatten_whitespace"
    /\ sql' = flatten_whitespace(sql)
    /\ write_stage("flatten_whitespace", sql', "extract_placeholders")
    /\ UNCHANGED tool_frame

ToolExtract ==
    /\ tool_pc = "extract_placeholders"
    /\ With(extract_placeholders(sql), LAMBDA r :
           /\ sql' = r.text
           /\ tool_placeholders' = r.reps)
    /\ write_stage("extract_placeholders", sql', "convert_sql_to_uppercase")
    /\ UNCHANGED << pvars, fvars, rvars, filepath, temp_files, tool_debug >>

ToolUppercase ==
    /\ tool_pc = "convert_sql_to_uppercase"
    /\ sql' = convert_sql_to_uppercase(sql)
    /\ write_stage("uppercase", sql', "insert_newlines_before_keywords")
    /\ UNCHANGED tool_frame

ToolKeywords ==
    /\ tool_pc = "insert_newlines_before_keywords"
    /\ sql' = insert_newlines_before_keywords(sql)
    /\ write_stage("newlines_keywords", sql', "newline_semicolon")
    /\ UNCHANGED tool_frame

\* sql = re.sub(r'\s*;\s*', r'\n\n;\n\n', sql), before the parentheses
ToolSemicolon ==
    /\ tool_pc = "newline_semicolon"
    /\ sql' = ReSub("semicolon_lines", sql, << >>)
    /\ write_stage("newline_semicolon", sql', "insert_newlines_for_parens_and_commas")
    /\ UNCHANGED tool_frame

ToolParens ==
    /\ tool_pc = "insert_newlines_for_parens_and_commas"
    /\ sql' = insert_newlines_for_parens_and_commas(sql)
    /\ write_stage("newlines_parentheses", sql', "restore_placeholders")
    /\ UNCHANGED tool_frame

ToolRestore ==
    /\ tool_pc = "restore_placeholders"
    /\ sql' = restore_placeholders(sql, tool_placeholders)
    /\ write_stage("restore_placeholders", sql', "run_sqlfluff_lint")
    /\ UNCHANGED tool_frame

\* the lint file is written and linted; the violations without a fix get
\* their noqa comments
ToolLint ==
    /\ tool_pc = "run_sqlfluff_lint"
    /\ temp_files' = WriteText(temp_files, "lint.sql", sql)
    /\ \E unfixable \in LintResults :
           With(IF tool_debug
                THEN WriteText(audit_path, Pad2(stage + 1) \o "_lint.json", unfixable)
                ELSE audit_path, LAMBDA files :
             With(IF tool_debug THEN stage + 2 ELSE stage + 1, LAMBDA n :
               IF unfixable # << >>
               THEN /\ sql' = add_noqa_comments(sql, unfixable)
                    /\ audit_path' = IF tool_debug
                                     THEN WriteText(files, Pad2(n) \o "_noqa_comments.sql",
                                                    sql')
                                     ELSE files
                    /\ stage' = n + 1
               ELSE /\ sql' = sql
                    /\ audit_path' = files
                    /\ stage' = n))
    /\ tool_pc' = "run_sqlfluff_fix"
    /\ UNCHANGED << pvars, fvars, rvars, filepath, tool_debug, tool_placeholders >>

\* the fix file is written, fixed by sqlfluff and read back
ToolFix ==
    /\ tool_pc = "run_sqlfluff_fix"
    /\ \E fixed_sql \in FixResults(sql) :
           /\ temp_files' = WriteText(temp_files, "fix.sql", fixed_sql)
           /\ sql' = fixed_sql
    /\ write_stage("fix", sql', "add_newline_after_cte_closing")
    /\ UNCHANGED << pvars, fvars, rvars, filepath, tool_debug, tool_placeholders >>

ToolCte ==
    /\ tool_pc = "add_newline_after_cte_closing"
    /\ sql' = add_newline_after_cte_closing(sql)
    /\ write_stage("newline_after_cte", sql', "convert_single_to_block_comments")
    /\ UNCHANGED tool_frame

ToolConvertComments ==
    /\ tool_pc = "convert_single_to_block_comments"
    /\ sql' = convert_single_to_block_comments(sql)
    /\ write_stage("convert_comments", sql', "move_inline_block_comments")
    /\ UNCHANGED tool_frame

ToolMoveComments ==
    /\ tool_pc = "move_inline_block_comments"
    /\ sql' = move_inline_block_comments(sql)
    /\ write_stage("move_comments", sql', "newline_semicolon_again")
    /\ UNCHANGED tool_frame

\* the same substitution, behind the comments
ToolSemicolonAgain ==
    /\ tool_pc = "newline_semicolon_again"
    /\ sql' = ReSub("semicolon_lines", sql, << >>)
    /\ write_stage("newline_semicolon", sql', "strip_indentation")
    /\ UNCHANGED tool_frame

ToolStrip ==
    /\ tool_pc = "strip_indentation"
    /\ sql' = strip_indentation(sql)
    /\ write_stage("strip_indentation", sql', "reindent_sql")
    /\ UNCHANGED tool_frame

\* sql = reindent_sql(sql); its IndexError ends the call
ToolReindent ==
    /\ tool_pc = "reindent_sql"
    /\ With(reindent_sql(sql, INDENT), LAMBDA r :
           IF r.raised
           THEN /\ tool_pc' = "IndexError"
                /\ UNCHANGED << sql, audit_path, stage >>
           ELSE /\ sql' = r.text
                /\ write_stage("indentation", sql', "finalize"))
    /\ UNCHANGED tool_frame

\* the file is replaced unless debug is set, the temporary files are removed
ToolFinalize ==
    /\ tool_pc = "finalize"
    /\ IF tool_debug
       THEN /\ write_stage("final", sql, "returned")
            /\ filepath' = filepath
       ELSE /\ filepath' = sql
            /\ tool_pc' = "returned"
            /\ UNCHANGED << audit_path, stage >>
    /\ temp_files' = << >>
    /\ UNCHANGED << pvars, fvars, rvars, tool_debug, sql, tool_placeholders >>

NextTool ==
    \/ ToolCall
    \/ ToolFlatten
    \/ ToolExtract
    \/ ToolUppercase
    \/ ToolKeywords
    \/ ToolSemicolon
    \/ ToolParens
    \/ ToolRestore
    \/ ToolLint
    \/ ToolFix
    \/ ToolCte
    \/ ToolConvertComments
    \/ ToolMoveComments
    \/ ToolSemicolonAgain
    \/ ToolStrip
    \/ ToolReindent
    \/ ToolFinalize

SpecTool == InitTool /\ [][NextTool]_vars

(***************************************************************************)
(* extract_placeholders applied to a text, and restore_placeholders        *)
(* applied to the pair it returned.  ret is that pair, then the restored   *)
(* text.                                                                   *)
(***************************************************************************)
MaxPlaceholderPieces == 2

\* spans that are terminated: words, string literals, quoted identifiers,
\* comments, templating blocks, and texts that look like placeholder keys
TerminatedPieces ==
    { "x ", "'a''b'", "\"i\"", "-- c\n", "/* d */", "{{ e }}", "{% if f %}",
      "{%- g -%}", "{# h #}", "__PLACEHOLDER_SQL_COMMENT_0001__",
      "'__PLACEHOLDER_SQL_COMMENT_0002__'" }

\* and a string literal that never ends
PlaceholderPieces == TerminatedPieces \cup { "'u" }

TerminatedTexts == Texts(TerminatedPieces, MaxPlaceholderPieces)

PlaceholderTexts == Texts(PlaceholderPieces, MaxPlaceholderPieces)

InitPlaceholders ==
    /\ file = ""
    /\ Idle
    /\ fn = ""
    /\ arg \in PlaceholderTexts
    /\ ret = ""
    /\ NoReindent
    /\ filepath = ""
    /\ NoTool

\* sql_with_placeholders, replacements = extract_placeholders(arg)
ApplyExtract ==
    /\ fn = ""
    /\ fn' = "extract_placeholders"
    /\ ret' = extract_placeholders(arg)
    /\ UNCHANGED << pvars, arg, rvars, tvars >>

\* restore_placeholders(sql_with_placeholders, replacements)
ApplyRestore ==
    /\ fn = "extract_placeholders"
    /\ fn' = "restore_placeholders"
    /\ ret' = restore_placeholders(ret.text, ret.reps)
    /\ UNCHANGED << pvars, arg, rvars, tvars >>

NextPlaceholders == ApplyExtract \/ ApplyRestore

SpecPlaceholders == InitPlaceholders /\ [][NextPlaceholders]_vars

(***************************************************************************)
(* is_function_call applied to a text that ends with "(", at the position  *)
(* of that parenthesis.                                                    *)
(***************************************************************************)
MaxCallPieces == 3

CallPieces == { "sum", "Max", "a.", ".", "9", " ", "_x", "\n" }

CallTexts == { t \o "(" : t \in Texts(CallPieces, MaxCallPieces) }

InitFunctionCall ==
    /\ file = ""
    /\ Idle
    /\ fn = ""
    /\ arg \in CallTexts
    /\ ret = ""
    /\ NoReindent
    /\ filepath = ""
    /\ NoTool

\* is_function_call(arg, idx) for the index idx of the last character
ApplyIsFunctionCall ==
    /\ fn = ""
    /\ fn' = "is_function_call"
    /\ ret' = is_function_call(arg, Len(arg))
    /\ UNCHANGED << pvars, arg, rvars, tvars >>

NextFunctionCall == ApplyIsFunctionCall

SpecFunctionCall == InitFunctionCall /\ [][NextFunctionCall]_vars

(***************************************************************************)
(* The three stages of process_sql_file that insert line breaks, applied   *)
(* one after the other to a flattened text: format_sql_keywords to arg,    *)
(* format_sql_commas and format_parentheses to what the stage before has   *)
(* returned.  ret is the text the stage named by fn has returned.          *)
(***************************************************************************)
MaxStagePieces == 2

StagePieces ==
    { "SELECT a", " FROM t", " LEFT JOIN u", " LEFT OUTER JOIN u", " CROSS JOIN u",
      " ON a", " and b", " GROUP BY a", " UNION", " LIMIT 1", " MAX(a OR b)",
      " (x) y", ", t.f(a, b)", "\nWHERE orders" }

StageTexts == Texts(StagePieces, MaxStagePieces)

InitStages ==
    /\ file = ""
    /\ Idle
    /\ fn = ""
    /\ arg \in StageTexts
    /\ ret = ""
    /\ NoReindent
    /\ filepath = ""
    /\ NoTool

\* formatted = format_sql_keywords(formatted)
ApplyKeywords ==
    /\ fn = ""
    /\ fn' = "format_sql_keywords"
    /\ ret' = format_sql_keywords(arg)
    /\ UNCHANGED << pvars, arg, rvars, tvars >>

\* formatted = format_sql_commas(formatted)
ApplyCommasNext ==
    /\ fn = "format_sql_keywords"
    /\ fn' = "format_sql_commas"
    /\ ret' = format_sql_commas(ret)
    /\ UNCHANGED << pvars, arg, rvars, tvars >>

\* formatted = format_parentheses(formatted)
ApplyParentheses ==
    /\ fn = "format_sql_commas"
    /\ fn' = "format_parentheses"
    /\ ret' = format_parentheses(ret)
    /\ UNCHANGED << pvars, arg, rvars, tvars >>

NextStages == ApplyKeywords \/ ApplyCommasNext \/ ApplyParentheses

SpecStages == InitStages /\ [][NextStages]_vars

(***************************************************************************)
(* Claims                                                                  *)
(***************************************************************************)
\* the text s without its white space
NonSpace(s) == JoinAll([k \in 1..Len(s) |-> IF IsSpace(Ch(s, k)) THEN "" ELSE Ch(s, k)])

\* some parenthesis of s has no partner
Unmatched(s) ==
    \E k \in 1..Len(s) :
        \/ Count(SubSeq(s, 1, k), ")") > Count(SubSeq(s, 1, k), "(")
        \/ k = Len(s) /\ Count(s, "(") > Count(s, ")")

\* C1: the pipeline run on its own output returns that output unchanged,
\* byte for byte
PipelineIdempotent ==
    (fn = "pipeline_again" /\ pc = "insert_pass1_comment") => finalized = ret

\* C2: the output of the pipeline holds the characters of the input that are
\* not white space, in their order, up to the case of letters
ContentPreserved ==
    pc = "insert_pass1_comment" =>
        NonSpace(Lower(finalized)) = NonSpace(Lower(raw_sql))

\* C3: every string literal and every comment of the input stands in the
\* final output as one span, byte for byte
PlaceholderSafety ==
    pc = "insert_pass1_comment" =>
        \A k \in DOMAIN placeholders :
            ~Contains(placeholders[k].key, "JINJA") =>
                Contains(finalized, placeholders[k].original)

\* the string literals, comments and templating directives of a text: the
\* spans that extract_placeholders protects in it
ProtectedSpans(text) ==
    {extract_placeholders(text).reps[k].original :
        k \in DOMAIN extract_placeholders(text).reps}

\* C4: in process_sql_file of the tool extract_placeholders runs before
\* every stage that changes the text and restore_placeholders behind the last
\* one, so every string literal, comment and templating directive of the file
\* stands, byte for byte, in the text the stages hand on or among the
\* protected spans
ProtectedPassThrough ==
    tool_pc \notin {"idle", "returned"} =>
        \A span \in ProtectedSpans(filepath) :
            \/ Contains(sql, span)
            \/ \E k \in DOMAIN tool_placeholders :
                   /\ Contains(tool_placeholders[k].original, span)
                   /\ Contains(sql, tool_placeholders[k].key)

\* C5: reindent_sql returns for every sequence of lines; it never raises
ReindentTotal == outcome # "IndexError"

\* depth at which reindent_sql has emitted a line: its indentation in levels
DepthOf(line) == (SkipSpace(line, 1) - 1) \div Len(INDENT)

\* first word of an input line of reindent_sql, in upper case
Lead(line) == FirstWord(Upper(Strip(line)))

\* the lines i+1..j are WHEN, AND/OR, THEN and ELSE lines in the order of a
\* CASE block: a condition behind each WHEN, a THEN behind each condition
CaseBranches(i, j) ==
    /\ Lead(lines[i + 1]) = "WHEN"
    /\ \A m \in (i + 1)..j :
           /\ Lead(lines[m]) \in {"WHEN", "AND", "OR", "THEN", "ELSE", "END"}
           /\ m > i + 1 =>
                  CASE Lead(lines[m]) = "WHEN" -> Lead(lines[m - 1]) = "THEN"
                    [] Lead(lines[m]) \in {"AND", "OR", "THEN"} ->
                           Lead(lines[m - 1]) \in {"WHEN", "AND", "OR"}
                    [] Lead(lines[m]) = "ELSE" -> Lead(lines[m - 1]) = "THEN"
                    [] Lead(lines[m]) = "END" -> Lead(lines[m - 1]) \in {"THEN", "ELSE"}
           /\ Lead(lines[m]) = "END" => m = j

\* C10: with the line that ends in CASE emitted at depth d, every WHEN line
\* of its block is emitted at depth d+1, every THEN and ELSE line at depth
\* d+2 and the END line at depth d+1, with or without AND/OR lines
CaseDepths ==
    outcome = "returned" =>
        \A i \in 1..Len(lines) : \A j \in (i + 1)..Len(lines) :
            (EndsWith(Upper(Strip(lines[i])), "CASE") /\ CaseBranches(i, j)) =>
                CASE Lead(lines[j]) \in {"WHEN", "END"} ->
                         DepthOf(result[j]) = DepthOf(result[i]) + 1
                  [] Lead(lines[j]) \in {"THEN", "ELSE"} ->
                         DepthOf(result[j]) = DepthOf(result[i]) + 2
                  [] OTHER -> TRUE

\* C6: for an input with a parenthesis that has no partner the pipeline runs
\* to its end and its output holds every token of the input, in order
MalformedParensKeepTokens ==
    (Unmatched(raw_sql) /\ pc = "insert_pass1_comment") =>
        NonSpace(Lower(raw_sql)) = NonSpace(Lower(finalized))

\* C7: a call that returns "diff_detected" has left the file as it read it
DiffKeepsFile ==
    (pc = "idle" /\ status = "diff_detected") => file = raw_sql

\* position of the k-th "," of s
CommaPos(s, k) ==
    First(1, Len(s), LAMBDA p : Ch(s, p) = "," /\ Count(SubSeq(s, 1, p), ",") = k)

\* position of the ")" that closes the "(" at q, 0 when s has none
MatchingClose(s, q) ==
    First(q + 1, Len(s), LAMBDA r :
        /\ Ch(s, r) = ")"
        /\ Count(SubSeq(s, q, r), "(") = Count(SubSeq(s, q, r), ")"))

\* the "(" of s that open a function call closed behind position p
CallsAround(s, p) ==
    {q \in 1..(p - 1) : /\ Ch(s, q) = "("
                        /\ is_function_call(s, q)
                        /\ MatchingClose(s, q) > p}

\* C8: format_sql_commas rewrites every comma between the "(" of a function
\* call and the ")" that closes it to ", ", with no line break before or
\* behind it, whatever the nesting of parentheses
FunctionCommasInline ==
    fn = "format_sql_commas" =>
        /\ Count(ret, ",") = Count(arg, ",")
        /\ \A k \in 1..Count(arg, ",") :
               CallsAround(arg, CommaPos(arg, k)) # {} =>
                   With(CommaPos(ret, k), LAMBDA c :
                       /\ Ch(ret, c + 1) = " "
                       /\ ~IsSpace(Ch(ret, c + 2))
                       /\ IsSpace(Ch(ret, c - 1)) =>
                              Ch(ret, c - 1) = " " /\ Ch(ret, c - 2) = ",")

\* a comma with white space around it, inside a pair of parentheses that
\* stands in the argument list of a function call, has been rewritten
FunctionCommasInlineWitness ==
    /\ fn = "format_sql_commas"
    /\ \E k \in 1..Count(arg, ",") :
           /\ CallsAround(arg, CommaPos(arg, k)) # {}
           /\ \E q \in 1..CommaPos(arg, k) :
                  /\ Ch(arg, q) = "("
                  /\ ~is_function_call(arg, q)
                  /\ MatchingClose(arg, q) > CommaPos(arg, k)
           /\ Ch(arg, CommaPos(arg, k) + 1) = "\n"
    /\ ret # arg

\* C9: in the output a line that is followed by the line of a later item
\* (", item") holds the first item only, never the clause keyword with it:
\* for "SELECT a,b,c FROM t" the lines SELECT, a, ", b", ", c" follow each other
StructuralCommasBreak ==
    pc = "insert_pass1_comment" =>
        With(SplitLines(finalized), LAMBDA out :
            /\ \A k \in 1..(Len(out) - 1) :
                   StartsWith(Strip(out[k + 1]), ",") =>
                       ~starts_with_major_clause(Strip(out[k]))
            /\ raw_sql = "SELECT a,b,c FROM t" =>
                   \E k \in 1..(Len(out) - 3) :
                       /\ Strip(out[k]) = "SELECT"
                       /\ Strip(out[k + 1]) = "a"
                       /\ Strip(out[k + 2]) = ", b"
                       /\ Strip(out[k + 3]) = ", c")

\* some parenthesis of s is still open at its end
Unclosed(s) == Count(s, "(") > Count(s, ")")

\* C11: a call of process_sql_file on a text whose parentheses do not close
\* returns a value that tells so: not one of the two values a call returns
\* for a text it has formatted and whose parentheses close
UnbalancedReported ==
    (pc = "idle" /\ calls > 0 /\ Unclosed(raw_sql) /\ ~has_pass1_comment(raw_sql))
        => status \notin {"formatted", "diff_detected"}

\* a call on a text whose parentheses close returns "formatted"
BalancedFormatted ==
    pc = "idle" /\ calls > 0 /\ ~Unclosed(raw_sql) /\ ~Unmatched(raw_sql)
        /\ status = "formatted"

RoundTrip == fn = "restore_placeholders" => ret = arg

\* quote characters, comment markers and templating delimiters
Markers == { "'", "\"", "--", "/*", "{{", "{%", "{#" }

\* C14: the text extract_placeholders returns for a text whose quotes, comments
\* and templating blocks are terminated holds no quote character, no comment
\* marker and no templating delimiter (a placeholder key holds none of them)
ProtectedTextClean ==
    (fn = "extract_placeholders" /\ arg \in TerminatedTexts)
        => \A mk \in Markers : ~Contains(ret.text, mk)

\* s[b..e] is identifiers joined by dots: schema.func
IsDotted(s, b, e) ==
    /\ 1 <= b /\ b <= e
    /\ Ch(s, b) \in IdentStart
    /\ \A k \in b..e : \/ Ch(s, k) \in WordChars
                       \/ /\ Ch(s, k) = "."
                          /\ k < e
                          /\ Ch(s, k - 1) \in WordChars
                          /\ Ch(s, k + 1) \in IdentStart

\* the final segment of the longest dotted identifier that ends at e is a
\* function name
NamesFunction(s, e) ==
    /\ \E b \in 1..e : IsDotted(s, b, e)
    /\ LET b0 == CHOOSE b \in 1..e :
                     IsDotted(s, b, e) /\ \A c \in 1..(b - 1) : ~IsDotted(s, c, e)
           dots == {k \in b0..e : Ch(s, k) = "."}
           seg == IF dots = {} THEN b0
                  ELSE 1 + CHOOSE k \in dots : \A d \in dots : d <= k
       IN  Upper(SubSeq(s, seg, e)) \in SNOWFLAKE_FUNCTIONS

\* C15, as stated: is_function_call is true exactly when a dotted identifier
\* ends at the character before the parenthesis, with nothing in between, and
\* its final segment, in upper case, is a function name
FunctionCallNoGap ==
    fn = "is_function_call" => (ret <=> NamesFunction(arg, Len(arg) - 1))

\* C15, amended: is_function_call is true exactly when a dotted identifier
\* ends before the parenthesis with nothing but white space in between, and
\* its final segment, in upper case, is a function name
FunctionCallClassified ==
    fn = "is_function_call"
        => (ret <=> NamesFunction(arg, SkipSpaceBack(arg, Len(arg) - 1)))

\* a dotted name with a function as its final segment, and white space
\* before the parenthesis
FunctionCallClassifiedWitness ==
    /\ fn = "is_function_call"
    /\ ret = TRUE
    /\ StartsWith(arg, "a.")
    /\ IsSpace(Ch(arg, Len(arg) - 1))

\* position of the m-th character of s that is no line break
NthNonNewline(s, m) ==
    First(1, Len(s), LAMBDA o :
        Ch(s, o) # "\n" /\ o - Count(SubSeq(s, 1, o), "\n") = m)

\* where the character at position j of the text of stands in the text to,
\* which is the text of with line breaks inserted (the character is no line
\* break)
OutPos(of, to, j) == NthNonNewline(to, j - Count(SubSeq(of, 1, j), "\n"))

\* number of line breaks that stand directly before position p of s
NewlinesBefore(s, p) == p - 1 - Last(1, p - 1, LAMBDA k : Ch(s, k) # "\n")

\* the keyword or phrase K stands at position j of s, as a word of its own
OccursAt(s, j, K) ==
    /\ ~IsWord(Ch(s, j - 1))
    /\ j + Len(K) - 1 <= Len(s)
    /\ Upper(SubSeq(s, j, j + Len(K) - 1)) = K
    /\ ~IsWord(Ch(s, j + Len(K)))

\* position j of s lies inside a phrase of Ks that starts before it
Covered(s, j, Ks) ==
    \E i \in 1..(j - 1) : \E K \in Ks : OccursAt(s, i, K) /\ i + Len(K) > j

\* every keyword of Two that stands in the text of, not directly behind a
\* line break and not inside a longer phrase, has two line breaks before it
\* in the text to, and every such keyword of One has one
NewlineClasses(of, to, Two, One) ==
    \A j \in 2..Len(of) : \A K \in Two \cup One :
        (OccursAt(of, j, K) /\ ~Covered(of, j, Two \cup One) /\ Ch(of, j - 1) # "\n")
            => NewlinesBefore(to, OutPos(of, to, j)) = (IF K \in Two THEN 2 ELSE 1)

JoinFamily ==
    { "JOIN", "LEFT JOIN", "RIGHT JOIN", "INNER JOIN", "FULL JOIN", "CROSS JOIN",
      "LEFT OUTER JOIN", "RIGHT OUTER JOIN", "FULL OUTER JOIN" }

\* C16, as stated: format_sql_keywords puts two line breaks before SELECT,
\* FROM, WHERE, GROUP BY, ORDER BY, HAVING and the JOIN family, and one before
\* ON, AND, OR, WITH, WHEN, THEN, ELSE, END, UNION and LIMIT
KeywordClassesAsStated ==
    fn = "format_sql_keywords" =>
        NewlineClasses(arg, ret,
            { "SELECT", "FROM", "WHERE", "GROUP BY", "ORDER BY", "HAVING" }
                \cup JoinFamily,
            { "ON", "AND", "OR", "WITH", "WHEN", "THEN", "ELSE", "END", "UNION",
              "LIMIT" })

\* C16, amended: format_sql_keywords puts two line breaks before SELECT, FROM,
\* WHERE, GROUP BY, ORDER BY, HAVING, JOIN, LEFT JOIN, RIGHT JOIN, INNER JOIN,
\* FULL JOIN, UNION and LIMIT, and one before OUTER JOIN, ON, AND, OR, WITH,
\* WHEN, THEN, ELSE, END, OVER and VALUES
KeywordClasses ==
    fn = "format_sql_keywords" =>
        NewlineClasses(arg, ret,
            { "SELECT", "FROM", "WHERE", "GROUP BY", "ORDER BY", "HAVING", "JOIN",
              "LEFT JOIN", "RIGHT JOIN", "INNER JOIN", "FULL JOIN", "UNION", "LIMIT" },
            { "OUTER JOIN", "ON", "AND", "OR", "WITH", "WHEN", "THEN", "ELSE", "END",
              "OVER", "VALUES" })

\* AND and UNION, each behind something else on its line
KeywordClassesWitness ==
    /\ fn = "format_sql_keywords"
    /\ arg = " and b UNION"
    /\ ret = " \nAND b \n\nUNION"

\* C17: format_sql_keywords puts the line break before the first word of a
\* phrase of several words and none between its words
PhrasesKept ==
    fn = "format_sql_keywords" =>
        \A j \in 2..Len(arg) :
            \A K \in (JoinFamily \ {"JOIN"}) \cup {"GROUP BY", "ORDER BY"} :
                (OccursAt(arg, j, K) /\ ~Covered(arg, j, JoinFamily))
                    => /\ OutPos(arg, ret, j + Len(K) - 1) - OutPos(arg, ret, j)
                              = Len(K) - 1
                       /\ Ch(arg, j - 1) # "\n"
                              => NewlinesBefore(ret, OutPos(arg, ret, j)) >= 1

\* only white space stands between position p of s and the end of its line
BlankBehind(s, p) ==
    \A k \in (p + 1)..Len(s) :
        (\A r \in (p + 1)..k : Ch(s, r) # "\n") => IsSpace(Ch(s, k))

\* C18: in the text format_parentheses returns every "(" that opens no
\* function call has a line break right behind it, and the ")" that closes it
\* has one right before it and stands alone on its line
StructuralParensBreak ==
    fn = "format_parentheses" =>
        \A p \in 1..Len(ret) :
            (Ch(ret, p) = "(" /\ ~is_function_call(ret, p))
                => /\ Ch(ret, p + 1) = "\n"
                   /\ With(MatchingClose(ret, p), LAMBDA c :
                          c # 0 => Ch(ret, c - 1) = "\n" /\ BlankBehind(ret, c))

\* no line break stands between the "(" of a function call of s and the ")"
\* that closes it
CallsUnbroken(s) ==
    \A p \in 1..Len(s) :
        (Ch(s, p) = "(" /\ is_function_call(s, p))
            => With(MatchingClose(s, p), LAMBDA c :
                   c # 0 => ~Contains(SubSeq(s, p, c), "\n"))

\* C19: format_sql_keywords, format_sql_commas and format_parentheses put no
\* line break between the "(" of a function call and the ")" that closes it
FunctionCallsNotReflowed ==
    (fn \in {"format_sql_keywords", "format_sql_commas", "format_parentheses"}
        /\ CallsUnbroken(arg))
            => CallsUnbroken(ret)

\* index in the stack of the PAREN frame nearest to its top, 0 when none
TopParen(stack) == Last(1, Len(stack), LAMBDA k : stack[k].type = "PAREN")

\* the part of the stack below its topmost PAREN frame; a frame OVER or
\* WITHIN_GROUP that the opening line has pushed with it goes with it
BelowParen(stack) ==
    With(TopParen(stack), LAMBDA k :
        IF k > 1 /\ stack[k - 1].type \in {"OVER", "WITHIN_GROUP"}
        THEN SubSeq(stack, 1, k - 2)
        ELSE SubSeq(stack, 1, k - 1))

\* C20: an iteration of reindent_sql for a line that starts with ")" removes
\* the topmost PAREN frame and the frames above it and leaves the frames
\* below it on the stack, and emits the line at the depth of those frames
ClosingParenDiscipline ==
    [][ (/\ outcome = ""
         /\ index <= Len(lines)
         /\ StartsWith(Strip(lines[index]), ")")
         /\ TopParen(clause_stack) # 0
         /\ index' = index + 1)
            => /\ clause_stack' = BelowParen(clause_stack)
               /\ DepthOf(result'[Len(result')])
                      = current_indent_offset(SubSeq(clause_stack, 1,
                                                     TopParen(clause_stack) - 1)) ]_vars

\* a line that opens no statement, parenthesis or CASE of its own: an AND, OR
\* or ON line or a clause line
BetweenClauses(line) ==
    \/ Lead(line) \in {"AND", "OR", "ON"}
    \/ is_major_clause(Strip(line))

\* C21: two clause lines of reindent_sql with nothing but clause, AND, OR and
\* ON lines between them are emitted at the same depth
SiblingClausesAligned ==
    outcome = "returned" =>
        \A i \in 1..Len(lines) : \A j \in (i + 1)..Len(lines) :
            (/\ is_major_clause(Strip(lines[i]))
             /\ is_major_clause(Strip(lines[j]))
             /\ \A k \in (i + 1)..(j - 1) : BetweenClauses(lines[k]))
                => DepthOf(result[j]) = DepthOf(result[i])

\* what reindent_sql leaves when it runs on the lines a..b alone, from the
\* state it starts in
FreshRun(a, b) ==
    Fold("reindent", [lines |-> SubSeq(lines, a, b), indent |-> INDENT], 1, b - a + 1,
         [i |-> 1, done |-> FALSE, raised |-> FALSE, clause_stack |-> << >>,
          after_select |-> FALSE, result |-> << >>])

\* C23: a line that is ";" alone is emitted as ";" without indentation, and
\* behind it the frame stack, the after-SELECT flag and the lines emitted since
\* are those of a run that starts at the line after it (with the ";" the last
\* line handled: the stack is empty and the flag is cleared)
SemicolonResets ==
    \A k \in 1..Len(result) :
        Strip(lines[k]) = ";" =>
            /\ result[k] = ";"
            /\ With(FreshRun(k + 1, Len(result)), LAMBDA r :
                   /\ ~r.raised
                   /\ r.result = SubSeq(result, k + 1, Len(result))
                   /\ r.clause_stack = clause_stack
                   /\ r.after_select = after_select)

\* a ";" behind an open parenthesis and an open clause, and a line behind it
\* that is emitted as the first line of a text is
SemicolonResetsWitness ==
    /\ outcome = "returned"
    /\ Len(lines) = 4
    /\ lines[1] = "SELECT a" /\ lines[2] = "f (" /\ Strip(lines[3]) = ";"
    /\ lines[4] = "WHEN a" /\ result[4] = "WHEN a"
    /\ clause_stack = << Frame("WHEN", "WHEN", 1) >>

\* C24: a blank line of the input of reindent_sql is emitted as the empty
\* string and changes neither the frame stack nor the after-SELECT flag
BlankLinesEmpty ==
    [][ (/\ outcome = "" /\ index <= Len(lines)
         /\ Strip(lines[index]) = ""
         /\ index' = index + 1)
            => /\ result' = Append(result, "")
               /\ clause_stack' = clause_stack
               /\ after_select' = after_select ]_vars

\* the text is some spaces followed by the text s
SpacesThen(text, s) ==
    /\ EndsWith(text, s)
    /\ \A p \in 1..(Len(text) - Len(s)) : Ch(text, p) = " "

\* C25: reindent_sql emits one line for every line it has handled, in the
\* order of the input: the line without the white space around it, behind a
\* prefix of spaces; when it returns it has handled every line
NoLineSkipped ==
    /\ Len(result) = index - 1
    /\ outcome = "returned" => Len(result) = Len(lines)
    /\ \A i \in 1..Len(result) : SpacesThen(result[i], Strip(lines[i]))

\* a returned text with the ")" of an OVER (, a comment and an END
NoLineSkippedWitness ==
    /\ outcome = "returned"
    /\ lines = << "x OVER (", ")", " -- c ", "END" >>
    /\ result = << "    x OVER (", "    )", "-- c", "END" >>

OverFrames(stack) == \E k \in DOMAIN stack : stack[k].type \in {"OVER", "WITHIN_GROUP"}

\* the innermost OVER or WITHIN_GROUP frame of the stack (0 if there is none)
TopOver(stack) ==
    Last(1, Len(stack), LAMBDA k : stack[k].type \in {"OVER", "WITHIN_GROUP"})

\* the innermost window construct is the innermost open parenthesis: the
\* PAREN frame of its "(" lies on its frame and no other PAREN frame above
InWindow(stack) ==
    With(TopOver(stack), LAMBDA o :
        /\ o # 0 /\ o < Len(stack)
        /\ stack[o + 1].type = "PAREN"
        /\ \A k \in (o + 2)..Len(stack) : stack[k].type # "PAREN")

\* C26: in reindent_sql an ORDER BY line handled while an OVER or WITHIN_GROUP
\* frame is on the stack leaves the stack unchanged, and the ")" line that
\* closes the innermost window construct leaves the frames that were below
\* the construct's frame, and nothing else
OverFramesKept ==
    [][ (/\ outcome = "" /\ index <= Len(lines) /\ index' = index + 1
         /\ OverFrames(clause_stack))
            => /\ StartsWith(Upper(Strip(lines[index])), "ORDER BY")
                   => clause_stack' = clause_stack
               /\ (StartsWith(Strip(lines[index]), ")") /\ InWindow(clause_stack))
                   => clause_stack' = SubSeq(clause_stack, 1, TopOver(clause_stack) - 1)
       ]_vars

\* the frame stack with which reindent_sql reaches line k
StackBefore(k) == FreshRun(1, k - 1).clause_stack

\* C27: behind the END of a CASE block of reindent_sql (a line that ends in
\* CASE, then WHEN, AND/OR, THEN and ELSE lines up to the END) the frame stack
\* is the stack of before the line that ends in CASE
CaseFramesBalanced ==
    outcome = "returned" =>
        \A i \in 1..Len(lines) : \A j \in (i + 1)..Len(lines) :
            (/\ EndsWith(Upper(Strip(lines[i])), "CASE")
             /\ CaseBranches(i, j)
             /\ Lead(lines[j]) = "END")
                => StackBefore(j + 1) = StackBefore(i)

\* C28: an AND or OR line inside a CASE block of reindent_sql is emitted at
\* the depth of the WHEN lines of the block, one level below the CASE line
CaseAndOrAligned ==
    outcome = "returned" =>
        \A i \in 1..Len(lines) : \A j \in (i + 1)..Len(lines) :
            (/\ EndsWith(Upper(Strip(lines[i])), "CASE")
             /\ CaseBranches(i, j)
             /\ Lead(lines[j]) \in {"AND", "OR"})
                => DepthOf(result[j]) = DepthOf(result[i]) + 1

\* a text without its spaces, tabs and newlines, in lower case
Squeezed(s) ==
    Lower(JoinAll([i \in 1..Len(s) |->
                      IF Ch(s, i) \in {" ", "\t", "\n"} THEN "" ELSE Ch(s, i)]))

\* C29: diff_detected tells whether the raw text and the formatted text
\* differ in more than spaces, tabs, newlines and letter case
DiffIsContentDiff ==
    pc = "write_audit_files" =>
        diff_detected = (Squeezed(raw_sql) # Squeezed(finalized))

\* the number of parentheses open before line k
ParenDepth(k) == With(Cat(lines, 1, k - 1), LAMBDA text : Count(text, "(") - Count(text, ")"))

\* line m ends the clause that starts at line i: a ";", a major clause at
\* the parenthesis depth of line i, or the ")" of a parenthesis that was open
\* before line i
EndsClause(i, m) ==
    \/ StartsWith(Strip(lines[m]), ";")
    \/ starts_with_major_clause(Strip(lines[m])) /\ ParenDepth(m) = ParenDepth(i)
    \/ ParenDepth(m + 1) < ParenDepth(i)

\* C22: indent_sql_with_children puts every non-blank line between a SELECT
\* line and the end of its clause at least one level below the SELECT line
SelectBodyIndented ==
    outcome = "returned" =>
        \A i \in 1..Len(lines) : \A j \in (i + 1)..Len(lines) :
            (/\ StartsWith(Upper(Strip(lines[i])), "SELECT")
             /\ Strip(lines[j]) # ""
             /\ \A m \in (i + 1)..j : ~EndsClause(i, m))
                => indents[j] >= indents[i] + 1

\* an iteration of a loop handles line k and either leaves the loop or moves
\* the cursor behind line k, and no further than behind the last line
Advances(k, st) == st.done \/ (st.i > k /\ st.i <= Len(lines) + 1)

\* the iterations process_case_block, process_parentheses_block and
\* process_major_clause can make when they are started at line s: each
\* advances, and process_case_block, called at any recursion depth up to one
\* beyond max_depth, returns an index behind its start_index
ChildScansAdvance(s) ==
    /\ \A depth \in 0..(max_depth + 1) :
           /\ With(process_case_block(lines, indents, s, depth), LAMBDA r :
                  r.i > s /\ r.i <= Len(lines) + 1)
           /\ \A k \in (s + 1)..Len(lines) :
                  Advances(k, CaseStep([lines |-> lines, base_indent |-> indents[s],
                                        depth |-> depth], k,
                                       [i |-> k, done |-> FALSE, indents |-> indents]))
    /\ \A k \in (s + 1)..Len(lines) :
           /\ \A open \in 1..MaxLines :
                  Advances(k, ParenStep([lines |-> lines], k,
                                        [i |-> k, depth |-> open, done |-> FALSE,
                                         indents |-> indents]))
           /\ Advances(k, MajorStep([lines |-> lines,
                                     clause_type |-> FirstWord(Upper(Strip(lines[s]))),
                                     clause_base_depth |->
                                         compute_depth_up_to(lines, s - 1)], k,
                                    [i |-> k, done |-> FALSE, indents |-> indents]))

\* C30: indent_sql_with_children terminates: the iteration of the main loop
\* at the cursor moves the cursor forward and no further than behind the last
\* line, and so does every iteration of the child scans that can be started at
\* the cursor; the loops make at most as many iterations as there are lines
IndentTerminates ==
    (outcome = "" /\ index <= Len(lines)) =>
        /\ Advances(index, IndentStep([lines |-> lines], index,
                                      [i |-> index, done |-> FALSE, indents |-> indents]))
        /\ ChildScansAdvance(index)

\* a call that has returned after a CASE block inside a CASE block, which the
\* main loop has stepped over
IndentTerminatesWitness ==
    /\ outcome = "returned"
    /\ lines = << "SELECT CASE", "SELECT CASE", "END AS x", "END AS x" >>
    /\ indents = << 0, 2, 3, 1 >>

=============================================================================
